---- MODULE Spec2Model ----
(***************************************************************************)
(* A model of the scop combinators of pet (src/scop.c): construction of    *)
(* statements and scops, sequential and parallel composition, skip         *)
(* conditions, filtering, restriction, loop embedding and gist.            *)
(*                                                                         *)
(* Integer sets and relations of the algebra provider are represented by   *)
(* their explicit sets of points over a small value range.  A point of a   *)
(* set is a record [p, it, a]: p the value of the parameters, it the       *)
(* iteration vector and a the values of the statement arguments (the range *)
(* of the wrapped relation).  A point of a relation is [p, it, x] with x   *)
(* the element of the range.                                               *)
(***************************************************************************)
EXTENDS Integers, Sequences, FiniteSets, TLC

VARIABLES pool, last, steps

vars == <<pool, last, steps>>

(***************************************************************************)
(* Bounds of the model.                                                    *)
(***************************************************************************)
MaxSteps == 5

Val == 0..1
Bool01 == 0..1
Slots == {1, 2}
SkipTypes == {"now", "later"}
ParamNames == {"n", "i"}

\* The null pointer.
NULL == [null |-> TRUE]

\* The object id of a temporary copy (a reference that is not owned by a scop).
TmpOid == 0

(***************************************************************************)
(* The algebra provider: parameter values, tuples, sets, relations.        *)
(***************************************************************************)
PV == [n : Val, i : Val]

RECURSIVE Tuples(_, _)
Tuples(S, d) == IF d = 0 THEN {<<>>}
                ELSE {<<v>> \o t : v \in S, t \in Tuples(S, d - 1)}

Prefix(t, k) == SubSeq(t, 1, k)

\* All points of the space with nin set dimensions and nout argument values.
AllPts(nin, nout) == [p : PV, it : Tuples(Val, nin), a : Tuples(Bool01, nout)]

\* The points of "pts" do not depend on the parameter "name".
SameBut(p, q, name) == \A m \in ParamNames \ {name} : p[m] = q[m]

\* isl_space_params_alloc + isl_set_universe: the universe parameter set.
isl_set_universe_params ==
    [params |-> {}, id |-> "", virtual |-> FALSE, wrapped |-> FALSE,
     nin |-> 0, nout |-> 0, pts |-> AllPts(0, 0)]

\* A parameter set given by the parameters it names and a predicate on them.
ParamSet(names, P(_)) ==
    [params |-> names, id |-> "", virtual |-> FALSE, wrapped |-> FALSE,
     nin |-> 0, nout |-> 0, pts |-> {pt \in AllPts(0, 0) : P(pt.p)}]

\* isl_set_universe of the space of "s".
isl_set_universe(s) == [s EXCEPT !.params = {}, !.pts = AllPts(s.nin, s.nout)]

isl_set_intersect(s, t) ==
    [s EXCEPT !.params = s.params \cup t.params, !.pts = s.pts \cap t.pts]

isl_set_union(s, t) ==
    [s EXCEPT !.params = s.params \cup t.params, !.pts = s.pts \cup t.pts]

isl_set_subtract(s, t) ==
    [s EXCEPT !.params = s.params \cup t.params, !.pts = s.pts \ t.pts]

isl_set_complement(s) == [s EXCEPT !.pts = AllPts(s.nin, s.nout) \ s.pts]

\* isl_set_params: the parameter values for which the set is not empty.
isl_set_params(s) ==
    [params |-> s.params, id |-> "", virtual |-> FALSE, wrapped |-> FALSE,
     nin |-> 0, nout |-> 0,
     pts |-> {[p |-> pt.p, it |-> <<>>, a |-> <<>>] : pt \in s.pts}]

\* isl_set_intersect_params: keep the points whose parameters lie in "c".
isl_set_intersect_params(s, c) ==
    [s EXCEPT !.params = s.params \cup c.params,
              !.pts = {pt \in s.pts :
                          [p |-> pt.p, it |-> <<>>, a |-> <<>>] \in c.pts}]

isl_set_is_equal(s, t) ==
    /\ s.id = t.id /\ s.wrapped = t.wrapped
    /\ s.nin = t.nin /\ s.nout = t.nout
    /\ s.pts = t.pts

\* isl_set_find_dim_by_id(set, isl_dim_param, id) >= 0
HasParam(s, name) == name \in s.params

\* isl_set_is_wrapping
isl_set_is_wrapping(s) == s.wrapped


(***************************************************************************)
(* Relations (isl_map): sets of points [p, it, x].                         *)
(***************************************************************************)
\* isl_map_params: the parameter values for which the relation is not empty.
isl_map_params(m) ==
    [params |-> m.params, id |-> "", virtual |-> FALSE, wrapped |-> FALSE,
     nin |-> 0, nout |-> 0,
     pts |-> {[p |-> pt.p, it |-> <<>>, a |-> <<>>] : pt \in m.pts}]

\* isl_map_fix_si(map, isl_dim_out, pos, v)
isl_map_fix_out(m, pos, v) == [m EXCEPT !.pts = {pt \in m.pts : pt.x[pos] = v}]

isl_map_is_subset(m1, m2) == m1.id = m2.id /\ m1.pts \subseteq m2.pts

isl_map_is_equal(m1, m2) == m1.id = m2.id /\ m1.pts = m2.pts

(***************************************************************************)
(* Piecewise affine expressions with values 0 and 1 over the parameters: a *)
(* definition domain "dom" and the part "nz" of it where the value is not  *)
(* zero.  "plain" records that the non-zero set is the universe in a way   *)
(* isl_set_plain_is_universe detects.  An isl_multi_pw_aff with a tuple id *)
(* is an access to the variable of that name (a non-affine expression).    *)
(***************************************************************************)
isl_pw_aff_domain(pa) == pa.dom
isl_pw_aff_non_zero_set(pa) == pa.nz
isl_pw_aff_zero_set(pa) == pa.dom \ pa.nz

\* isl_multi_pw_aff_get_pw_aff(mpa, 0)
isl_multi_pw_aff_get_pw_aff(mpa) ==
    [dom |-> mpa.dom, nz |-> mpa.nz, plain |-> mpa.plain, params |-> mpa.params]

\* isl_multi_pw_aff_from_pw_aff, the result being the object "oid".
isl_multi_pw_aff_from_pw_aff(pa, oid) ==
    [oid |-> oid, id |-> "", nin |-> 0, params |-> pa.params,
     dom |-> pa.dom, nz |-> pa.nz, plain |-> pa.plain]

\* isl_multi_pw_aff_copy: another reference to the same expression.
isl_multi_pw_aff_copy(mpa) == IF mpa = NULL THEN NULL ELSE [mpa EXCEPT !.oid = TmpOid]

\* isl_multi_pw_aff_free
isl_multi_pw_aff_free(mpa) == IF mpa = NULL THEN <<>> ELSE <<mpa.oid>>

\* A wrongly generous affine-ness test: every expression counts as affine.
multi_pw_aff_is_affine_always(mpa) == TRUE

multi_pw_aff_is_affine(mpa) == mpa.id = ""

\* The indicator function without the restriction to "dom".
indicator_function_total(set, dom) ==
    [dom |-> PV, nz |-> set.pts, plain |-> set.plain, params |-> set.params]

\* "set ? 1 : 0" defined on "dom"; set and dom are [pts, plain, params].
indicator_function(set, dom) ==
    [dom |-> dom.pts, nz |-> set.pts \cap dom.pts,
     plain |-> set.plain /\ dom.plain,
     params |-> set.params \cup dom.params]

\* "lhs && rhs" instead of "lhs || rhs".
pw_aff_and(lhs, rhs) ==
    indicator_function(
        [pts |-> lhs.nz \cap rhs.nz, plain |-> lhs.plain /\ rhs.plain,
         params |-> lhs.params \cup rhs.params],
        [pts |-> lhs.dom \cap rhs.dom, plain |-> lhs.dom = PV /\ rhs.dom = PV,
         params |-> lhs.params \cup rhs.params])

\* "lhs || rhs", defined on the shared definition domain.
pw_aff_or(lhs, rhs) ==
    LET dom == [pts |-> isl_pw_aff_domain(lhs) \cap isl_pw_aff_domain(rhs),
                plain |-> lhs.dom = PV /\ rhs.dom = PV,
                params |-> lhs.params \cup rhs.params]
        cond == [pts |-> isl_pw_aff_non_zero_set(lhs) \cup
                         isl_pw_aff_non_zero_set(rhs),
                 plain |-> lhs.plain \/ rhs.plain,
                 params |-> lhs.params \cup rhs.params]
    IN  indicator_function(cond, dom)

(***************************************************************************)
(* Object ids of the elements of an array of pointers, and the frees.      *)
(* Every free is recorded as the id of the object that is released.        *)
(***************************************************************************)
SeqOids(seq) ==
    LET sel == SelectSeq(seq, LAMBDA e : e # NULL)
    IN  [k \in 1..Len(sel) |-> sel[k].oid]

pet_stmt_free(stmt) == IF stmt = NULL THEN <<>> ELSE <<stmt.oid>>

pet_array_free(array) == IF array = NULL THEN <<>> ELSE <<array.oid>>

pet_implication_free(implication) ==
    IF implication = NULL THEN <<>> ELSE <<implication.oid>>

\* A pet_scop_free that forgets the skip conditions.
pet_scop_free_noskip(scop) ==
    IF scop = NULL THEN <<>>
    ELSE SeqOids(scop.arrays) \o SeqOids(scop.stmts) \o
         SeqOids(scop.implications) \o <<scop.oid>>

pet_scop_free(scop) ==
    IF scop = NULL THEN <<>>
    ELSE SeqOids(scop.arrays) \o SeqOids(scop.stmts) \o
         SeqOids(scop.implications) \o
         isl_multi_pw_aff_free(scop.skip.now) \o
         isl_multi_pw_aff_free(scop.skip.later) \o <<scop.oid>>

(***************************************************************************)
(* Locations (loc.c): a byte range, or the dummy location.                 *)
(***************************************************************************)
pet_loc_dummy == [dummy |-> TRUE]

Min(a, b) == IF a < b THEN a ELSE b
Max(a, b) == IF a > b THEN a ELSE b

pet_loc_update_start_end(loc, start, end) ==
    [start |-> Min(loc.start, start), end |-> Max(loc.end, end)]


(***************************************************************************)
(* Parameters: nested (unnamed) parameters and their removal (nest.c).     *)
(***************************************************************************)
NestedNames == {}

\* isl_set_project_out(set, isl_dim_param, pos, 1)
ProjectOutParam(s, name) ==
    [s EXCEPT !.params = s.params \ {name},
              !.pts = {pt \in AllPts(s.nin, s.nout) :
                         \E q \in s.pts : /\ q.it = pt.it /\ q.a = pt.a
                                          /\ SameBut(pt.p, q.p, name)}]

RECURSIVE ProjectOutParams(_, _)
ProjectOutParams(s, names) ==
    IF names = {} THEN s
    ELSE LET m == CHOOSE x \in names : TRUE
         IN  ProjectOutParams(ProjectOutParam(s, m), names \ {m})

pet_nested_remove_from_set(s) == ProjectOutParams(s, s.params \cap NestedNames)

(***************************************************************************)
(* Expression trees (expr.c).  An access expression holds its access       *)
(* relation; an operator expression holds its kind and its operands.       *)
(***************************************************************************)
\* The identifier of the induction variable of the loops of the model.
VarId == "i"

Access(id, virtual, params, nin, pts, read, write) ==
    [type |-> "access",
     acc |-> [params |-> params, id |-> id, virtual |-> virtual,
              nin |-> nin, pts |-> pts],
     read |-> read, write |-> write, args |-> <<>>]

Op(op, args) == [type |-> "op", op |-> op, args |-> args]

\* A[n], written.
AccessA == Access("A", FALSE, {"n"}, 0,
                  {[p |-> q, it |-> <<>>, x |-> <<q.n>>] : q \in PV}, FALSE, TRUE)
\* B[n - 1], read; the subscript is valid for n >= 1 only.
AccessB == Access("B", FALSE, {"n"}, 0,
                  {[p |-> q, it |-> <<>>, x |-> <<q.n - 1>>] : q \in {r \in PV : r.n >= 1}},
                  TRUE, FALSE)
\* A[i], written, with the induction variable referenced as a parameter;
\* the subscript is valid for i <= n only.
AccessAi == Access("A", FALSE, {"n", "i"}, 0,
                   {[p |-> q, it |-> <<>>, x |-> <<q.i>>] : q \in {r \in PV : r.i <= r.n}},
                   FALSE, TRUE)
\* The induction variable itself, read.
AccessIv == Access(VarId, FALSE, {}, 0,
                   {[p |-> q, it |-> <<>>, x |-> <<>>] : q \in PV}, TRUE, FALSE)
\* The affine condition n >= 1: an access to an unnamed space with the value.
AffineCond == Access("", FALSE, {"n"}, 0,
                     {[p |-> q, it |-> <<>>, x |-> <<IF q.n >= 1 THEN 1 ELSE 0>>] : q \in PV},
                     TRUE, FALSE)

\* The test T[i], read: a condition that is not affine; the subscript is
\* valid for i <= n only.
AccessT == Access("T", FALSE, {"n", "i"}, 0,
                  {[p |-> q, it |-> <<>>, x |-> <<q.i>>] : q \in {r \in PV : r.i <= r.n}},
                  TRUE, FALSE)
\* The affine condition i = n, defined for n >= 1 only.
AffineCondI == Access("", FALSE, {"n", "i"}, 0,
                      {[p |-> q, it |-> <<>>, x |-> <<IF q.i = q.n THEN 1 ELSE 0>>] :
                          q \in {r \in PV : r.n >= 1}},
                      TRUE, FALSE)

BodyAB == Op("assign", <<AccessA, AccessB>>)
BodyAi == Op("assign", <<AccessAi, AccessIv>>)
BodyCond == Op("assign", <<AccessA, Op("cond", <<AffineCond, AccessB, AccessIv>>)>>)
Bodies == {BodyAB, BodyAi, BodyCond}

\* pet_expr_is_affine: an access to an unnamed space without arguments.
pet_expr_is_affine(expr) ==
    expr.type = "access" /\ expr.acc.id = "" /\ Len(expr.args) = 0

pet_expr_access_get_id(expr) == expr.acc.id

pet_stmt_is_assume(stmt) == stmt.body.type = "op" /\ stmt.body.op = "assume"

(***************************************************************************)
(* Context extraction.                                                     *)
(***************************************************************************)
\* The context left as it is, whatever the access.
access_extract_context_none(access, context) == context

access_extract_context(access, context) ==
    isl_set_intersect(context, isl_map_params(access))

RECURSIVE expr_extract_context(_, _)
RECURSIVE args_extract_context(_, _, _)
RECURSIVE expr_extract_context_union(_, _)
\* The conditional operator handled as if its condition were never affine.
expr_extract_context_union(expr, context) ==
    IF expr.type = "op" /\ expr.op = "cond"
    THEN LET context0 == expr_extract_context_union(expr.args[1], context)
             context1 == expr_extract_context_union(expr.args[2], context0)
             context2 == expr_extract_context_union(expr.args[3], context0)
         IN  isl_set_union(context1, context2)
    ELSE IF expr.type = "access"
         THEN isl_set_intersect(context, isl_map_params(expr.acc))
         ELSE context

args_extract_context(args, k, context) ==
    IF k > Len(args) THEN context
    ELSE args_extract_context(args, k + 1,
                              expr_extract_context(args[k], context))

expr_extract_context(expr, context) ==
    IF expr.type = "op" /\ expr.op = "cond"
    THEN LET is_aff == pet_expr_is_affine(expr.args[1])
             context0 == expr_extract_context(expr.args[1], context)
             context1 == expr_extract_context(expr.args[2], context0)
             context2 == expr_extract_context(expr.args[3], context0)
             zero_set == isl_map_params(
                             isl_map_fix_out(expr.args[1].acc, 1, 0))
         IN  IF is_aff
             THEN isl_set_union(isl_set_subtract(context1, zero_set),
                                isl_set_intersect(context2, zero_set))
             ELSE isl_set_union(context1, context2)
    ELSE LET c == args_extract_context(expr.args, 1, context)
         IN  IF expr.type = "access"
             THEN access_extract_context(expr.acc, c)
             ELSE c

stmt_extract_context(stmt, context) ==
    IF pet_stmt_is_assume(stmt) /\ pet_expr_is_affine(stmt.body.args[1])
    THEN isl_set_intersect(context,
             isl_map_params([stmt.body.args[1].acc EXCEPT
                 !.pts = {pt \in @ : pt.x[1] # 0}]))
    ELSE expr_extract_context(stmt.body,
             args_extract_context(stmt.args, 1, context))

(***************************************************************************)
(* Construction of statements and scops.                                   *)
(***************************************************************************)
\* The statement name: the label, or S_<id> when there is no label.
StmtName(label, id) == IF label = "" THEN "S_" \o ToString(id) ELSE label

\* pet_stmt_from_pet_expr; "oid" is the address of the new statement.
pet_stmt_from_pet_expr(loc, label, id, expr, oid, fail) ==
    IF loc = NULL \/ expr = NULL \/ fail = "stmt_alloc" THEN NULL
    ELSE LET dom == [params |-> {}, id |-> StmtName(label, id),
                     virtual |-> FALSE, wrapped |-> FALSE,
                     nin |-> 0, nout |-> 0, pts |-> AllPts(0, 0)]
             sched == [params |-> {}, id |-> StmtName(label, id),
                       nin |-> 0, nout |-> 0,
                       pts |-> {[p |-> pt.p, it |-> pt.it, x |-> <<>>] :
                                   pt \in dom.pts}]
         IN  [oid |-> oid, loc |-> loc, domain |-> dom, schedule |-> sched,
              body |-> expr, args |-> <<>>]

\* scop_alloc(ctx, n): room for n statements, all fields zero.
scop_alloc(n, oid, fail) ==
    IF fail = "scop_alloc" THEN NULL
    ELSE [oid |-> oid,
          context |-> isl_set_universe_params,
          context_value |-> isl_set_universe_params,
          types |-> <<>>, arrays |-> <<>>,
          stmts |-> [k \in 1..n |-> NULL],
          implications |-> <<>>,
          skip |-> [now |-> NULL, later |-> NULL],
          loc |-> pet_loc_dummy, input |-> NULL]

pet_scop_empty(oid, fail) == scop_alloc(0, oid, fail)

\* pet_scop_from_pet_stmt; the result is [r: the scop or NULL, fr: the frees].
pet_scop_from_pet_stmt(stmt, oid, fail) ==
    IF stmt = NULL THEN [r |-> NULL, fr |-> <<>>]
    ELSE LET scop == scop_alloc(1, oid, fail)
         IN  IF scop = NULL
             THEN [r |-> NULL, fr |-> pet_stmt_free(stmt)]
             ELSE [r |-> [scop EXCEPT
                            !.context = stmt_extract_context(stmt, scop.context),
                            !.stmts = <<stmt>>,
                            !.loc = stmt.loc],
                   fr |-> <<>>]


(***************************************************************************)
(* Skip conditions.                                                        *)
(***************************************************************************)
pet_scop_has_skip(scop, type) == scop.skip[type] # NULL

pet_scop_has_affine_skip(scop, type) ==
    IF scop.skip[type] = NULL THEN FALSE
    ELSE multi_pw_aff_is_affine(scop.skip[type])

pet_scop_has_universal_skip(scop, type) ==
    IF ~pet_scop_has_affine_skip(scop, type) THEN FALSE
    ELSE isl_multi_pw_aff_get_pw_aff(scop.skip[type]).plain

\* pet_scop_get_skip: a copy of scop->skip[type].
pet_scop_get_skip(scop, type) ==
    IF scop = NULL THEN NULL ELSE isl_multi_pw_aff_copy(scop.skip[type])

\* pet_scop_set_skip; the result is [r, fr].
pet_scop_set_skip(scop, type, skip) ==
    IF scop = NULL \/ skip = NULL
    THEN [r |-> NULL, fr |-> isl_multi_pw_aff_free(skip) \o pet_scop_free(scop)]
    ELSE [r |-> [scop EXCEPT !.skip[type] = skip],
          fr |-> isl_multi_pw_aff_free(scop.skip[type])]

\* pet_scop_reset_skip; the result is [r, fr].
pet_scop_reset_skip(scop, type) ==
    IF scop = NULL THEN [r |-> NULL, fr |-> <<>>]
    ELSE [r |-> [scop EXCEPT !.skip[type] = NULL],
          fr |-> isl_multi_pw_aff_free(scop.skip[type])]

(***************************************************************************)
(* combine_skips works on three pointers ext, ext1 and ext2, where ext may *)
(* be equal to ext1 or to ext2.  The state of the three scops is the       *)
(* record [e, e1, e2, alias, fr]: alias tells which of ext1 ("ext1"),      *)
(* ext2 ("ext2") or neither ("new") ext is; the aliased scop is held in e. *)
(***************************************************************************)
Ext1(st) == IF st.alias = "ext1" THEN st.e ELSE st.e1
Ext2(st) == IF st.alias = "ext2" THEN st.e ELSE st.e2

PutSkip(st, who, type, v) ==
    IF who = "ext" \/ who = st.alias THEN [st EXCEPT !.e.skip[type] = v]
    ELSE IF who = "ext1" THEN [st EXCEPT !.e1.skip[type] = v]
    ELSE [st EXCEPT !.e2.skip[type] = v]

\* combine_skips that keeps the skip of ext1 when both sides have one.
combine_skips_first(st, type, oid, fail) ==
    IF st.e = NULL THEN st
    ELSE LET s1 == Ext1(st).skip[type]
             s2 == Ext2(st).skip[type]
         IN  IF s1 = NULL /\ s2 = NULL THEN st
             ELSE IF s1 = NULL
             THEN IF st.alias = "ext2" THEN st
                  ELSE PutSkip(PutSkip(st, "ext", type, s2), "ext2", type, NULL)
             ELSE IF st.alias = "ext1" THEN st
                  ELSE PutSkip(PutSkip(st, "ext", type, s1), "ext1", type, NULL)

\* combine_skips that fails only when neither of the two skips is affine.
combine_skips_both(st, type, oid, fail) ==
    IF st.e = NULL THEN st
    ELSE LET s1 == Ext1(st).skip[type]
             s2 == Ext2(st).skip[type]
         IN  IF s1 = NULL /\ s2 = NULL THEN st
             ELSE IF s1 = NULL
             THEN IF st.alias = "ext2" THEN st
                  ELSE PutSkip(PutSkip(st, "ext", type, s2), "ext2", type, NULL)
             ELSE IF s2 = NULL
             THEN IF st.alias = "ext1" THEN st
                  ELSE PutSkip(PutSkip(st, "ext", type, s1), "ext1", type, NULL)
             ELSE IF ~multi_pw_aff_is_affine(s1) /\ ~multi_pw_aff_is_affine(s2)
             THEN [st EXCEPT !.e = NULL, !.fr = @ \o pet_scop_free(st.e)]
             ELSE LET skip == pw_aff_or(isl_multi_pw_aff_get_pw_aff(s1),
                                        isl_multi_pw_aff_get_pw_aff(s2))
                      st1 == PutSkip(PutSkip(st, "ext1", type, NULL),
                                     "ext2", type, NULL)
                      st2 == [st1 EXCEPT !.fr = @ \o isl_multi_pw_aff_free(s1)
                                                  \o isl_multi_pw_aff_free(s2)]
                  IN  IF fail = "skip_alloc"
                      THEN [st2 EXCEPT !.e = NULL,
                                       !.fr = @ \o pet_scop_free(st2.e)]
                      ELSE PutSkip(st2, "ext", type,
                                   isl_multi_pw_aff_from_pw_aff(skip, oid[type]))

combine_skips(st, type, oid, fail) ==
    IF st.e = NULL THEN st
    ELSE LET s1 == Ext1(st).skip[type]
             s2 == Ext2(st).skip[type]
         IN  IF s1 = NULL /\ s2 = NULL THEN st
             ELSE IF s1 = NULL
             THEN IF st.alias = "ext2" THEN st
                  ELSE PutSkip(PutSkip(st, "ext", type, s2), "ext2", type, NULL)
             ELSE IF s2 = NULL
             THEN IF st.alias = "ext1" THEN st
                  ELSE PutSkip(PutSkip(st, "ext", type, s1), "ext1", type, NULL)
             ELSE IF ~multi_pw_aff_is_affine(s1) \/ ~multi_pw_aff_is_affine(s2)
             THEN [st EXCEPT !.e = NULL, !.fr = @ \o pet_scop_free(st.e)]
             ELSE LET skip == pw_aff_or(isl_multi_pw_aff_get_pw_aff(s1),
                                        isl_multi_pw_aff_get_pw_aff(s2))
                      st1 == PutSkip(PutSkip(st, "ext1", type, NULL),
                                     "ext2", type, NULL)
                      st2 == [st1 EXCEPT !.fr = @ \o isl_multi_pw_aff_free(s1)
                                                  \o isl_multi_pw_aff_free(s2)]
                  IN  IF fail = "skip_alloc"
                      THEN [st2 EXCEPT !.e = NULL,
                                       !.fr = @ \o pet_scop_free(st2.e)]
                      ELSE PutSkip(st2, "ext", type,
                                   isl_multi_pw_aff_from_pw_aff(skip, oid[type]))

scop_combine_skips(st, oid, fail) ==
    combine_skips(combine_skips(st, "now", oid, fail), "later", oid, fail)

(***************************************************************************)
(* Locations of a scop.                                                    *)
(***************************************************************************)
pet_scop_update_start_end(scop, start, end) ==
    IF scop = NULL THEN NULL
    ELSE IF scop.loc = pet_loc_dummy
    THEN [scop EXCEPT !.loc = [start |-> start, end |-> end]]
    ELSE [scop EXCEPT !.loc = pet_loc_update_start_end(scop.loc, start, end)]

pet_scop_update_start_end_from_loc(scop, loc) ==
    pet_scop_update_start_end(scop, loc.start, loc.end)

scop_combine_start_end(scop, scop1, scop2) ==
    LET s1 == IF scop1.loc # pet_loc_dummy
              THEN pet_scop_update_start_end_from_loc(scop, scop1.loc)
              ELSE scop
    IN  IF scop2.loc # pet_loc_dummy
        THEN pet_scop_update_start_end_from_loc(s1, scop2.loc)
        ELSE s1

(***************************************************************************)
(* Implications of a combined scop.                                        *)
(***************************************************************************)
is_known_implication(implications, implication) ==
    \E k \in 1..Len(implications) :
        /\ implications[k].satisfied = implication.satisfied
        /\ isl_map_is_equal(implications[k].extension, implication.extension)

\* The implications of scop2 that are moved to the combined scop: those not
\* known among the first n_implication (those of scop1) entries.
NewImplications(known, from) ==
    SelectSeq(from, LAMBDA pi : ~is_known_implication(known, pi))

\* The concatenation without the removal of duplicates.
scop_collect_implications_all(st, fail) ==
    IF st.e = NULL THEN st
    ELSE [st EXCEPT !.e.implications = st.e1.implications \o st.e2.implications,
                    !.e1.implications = <<>>, !.e2.implications = <<>>]

\* scop_collect_implications on the state [e, e1, e2, alias, fr].
scop_collect_implications(st, fail) ==
    IF st.e = NULL THEN st
    ELSE IF Len(st.e2.implications) = 0
    THEN [st EXCEPT !.e.implications = st.e1.implications,
                    !.e1.implications = <<>>]
    ELSE IF Len(st.e1.implications) = 0
    THEN [st EXCEPT !.e.implications = st.e2.implications,
                    !.e2.implications = <<>>]
    ELSE IF fail = "implications_alloc"
    THEN [st EXCEPT !.e = NULL, !.fr = @ \o pet_scop_free(st.e)]
    ELSE [st EXCEPT
            !.e.implications =
                st.e1.implications \o
                NewImplications(st.e1.implications, st.e2.implications),
            !.e1.implications = [k \in 1..Len(st.e1.implications) |-> NULL],
            !.e2.implications =
                [k \in 1..Len(st.e2.implications) |->
                    IF is_known_implication(st.e1.implications,
                                            st.e2.implications[k])
                    THEN st.e2.implications[k] ELSE NULL]]

(***************************************************************************)
(* Context restriction and composition of scops.                           *)
(***************************************************************************)
\* pet_scop_restrict_context that leaves the context as it is.
pet_scop_restrict_context_none(st, context) == st

\* pet_scop_restrict_context on the scop of the state.
pet_scop_restrict_context(st, context) ==
    IF st.e = NULL THEN st
    ELSE [st EXCEPT !.e.context =
             isl_set_intersect(@, pet_nested_remove_from_set(context))]

NullSeq(seq) == [k \in 1..Len(seq) |-> NULL]

\* pet_scop_add that puts the statements of scop2 before those of scop1.
pet_scop_add_swapped(scop1, scop2, oid, fail) ==
    IF scop1 = NULL \/ scop2 = NULL
    THEN [r |-> NULL, fr |-> pet_scop_free(scop1) \o pet_scop_free(scop2)]
    ELSE [r |-> [scop_alloc(0, oid.scop, "") EXCEPT
                    !.stmts = scop2.stmts \o scop1.stmts,
                    !.arrays = scop2.arrays \o scop1.arrays],
          fr |-> <<scop1.oid, scop2.oid>>]

\* pet_scop_add that builds the result in its first operand, which keeps its
\* types and its context_value.
pet_scop_add_inplace(scop1, scop2, oid, fail) ==
    IF scop1 = NULL \/ scop2 = NULL
    THEN [r |-> NULL, fr |-> pet_scop_free(scop1) \o pet_scop_free(scop2)]
    ELSE [r |-> [scop1 EXCEPT !.stmts = @ \o scop2.stmts,
                              !.arrays = @ \o scop2.arrays],
          fr |-> <<scop2.oid>>]

\* pet_scop_add that returns its first operand, whichever is empty.
pet_scop_add_first(scop1, scop2, oid, fail) ==
    IF scop1 = NULL \/ scop2 = NULL
    THEN [r |-> NULL, fr |-> pet_scop_free(scop1) \o pet_scop_free(scop2)]
    ELSE [r |-> scop1, fr |-> pet_scop_free(scop2)]

\* pet_scop_add; "oid" holds the addresses of the objects that are allocated:
\* oid.scop, oid.now and oid.later.  The result is [r, fr].
pet_scop_add(scop1, scop2, oid, fail) ==
    IF scop1 = NULL \/ scop2 = NULL
    THEN [r |-> NULL, fr |-> pet_scop_free(scop1) \o pet_scop_free(scop2)]
    ELSE IF Len(scop1.stmts) = 0
    THEN LET st == scop_combine_skips(
                       [e |-> scop2, e1 |-> scop1, e2 |-> NULL,
                        alias |-> "ext2", fr |-> <<>>], oid, fail)
         IN  [r |-> st.e, fr |-> st.fr \o pet_scop_free(st.e1)]
    ELSE IF Len(scop2.stmts) = 0
    THEN LET st == scop_combine_skips(
                       [e |-> scop1, e1 |-> NULL, e2 |-> scop2,
                        alias |-> "ext1", fr |-> <<>>], oid, fail)
         IN  [r |-> st.e, fr |-> st.fr \o pet_scop_free(st.e2)]
    ELSE LET scop == scop_alloc(Len(scop1.stmts) + Len(scop2.stmts),
                                oid.scop, fail)
         IN  IF scop = NULL
             THEN [r |-> NULL,
                   fr |-> pet_scop_free(scop1) \o pet_scop_free(scop2)]
             ELSE IF fail = "arrays_alloc"
             THEN [r |-> NULL,
                   fr |-> pet_scop_free(scop1) \o pet_scop_free(scop2) \o
                          pet_scop_free(scop)]
             ELSE LET st0 == [e |-> [scop EXCEPT
                                        !.stmts = scop1.stmts \o scop2.stmts,
                                        !.arrays = scop1.arrays \o scop2.arrays],
                              e1 |-> [scop1 EXCEPT !.stmts = NullSeq(@),
                                                   !.arrays = NullSeq(@)],
                              e2 |-> [scop2 EXCEPT !.stmts = NullSeq(@),
                                                   !.arrays = NullSeq(@)],
                              alias |-> "new", fr |-> <<>>]
                      st1 == scop_collect_implications(st0, fail)
                      st2 == pet_scop_restrict_context(st1, st1.e1.context)
                      st3 == pet_scop_restrict_context(st2, st2.e2.context)
                      st4 == scop_combine_skips(st3, oid, fail)
                      st5 == [st4 EXCEPT !.e = IF @ = NULL THEN NULL
                                 ELSE scop_combine_start_end(@, st4.e1, st4.e2)]
                  IN  [r |-> st5.e,
                       fr |-> st5.fr \o pet_scop_free(st5.e1) \o
                              pet_scop_free(st5.e2)]


(***************************************************************************)
(* Restriction to a condition on the parameters.                           *)
(***************************************************************************)
PVof(s) == {pt.p : pt \in s.pts}

\* Is the parameter set plainly the universe?
PlainUniverse(s) == s.params = {} /\ PVof(s) = PV

\* stmt_restrict without the intersection.
stmt_restrict_none(stmt, cond) == stmt

stmt_restrict(stmt, cond) ==
    IF stmt = NULL THEN NULL
    ELSE [stmt EXCEPT !.domain = isl_set_intersect_params(@, cond)]

\* pet_scop_restrict_skip that leaves the skip condition as it is.
pet_scop_restrict_skip_keep(scop, type, cond, oid) ==
    IF scop = NULL THEN [r |-> NULL, fr |-> <<>>]
    ELSE IF scop.skip[type] = NULL THEN [r |-> scop, fr |-> <<>>]
    ELSE IF ~multi_pw_aff_is_affine(scop.skip[type])
    THEN [r |-> NULL, fr |-> pet_scop_free(scop)]
    ELSE [r |-> [scop EXCEPT !.skip[type].oid = oid[type]],
          fr |-> isl_multi_pw_aff_free(scop.skip[type])]

\* pet_scop_restrict_skip; the result is [r, fr].
pet_scop_restrict_skip(scop, type, cond, oid) ==
    IF scop = NULL THEN [r |-> NULL, fr |-> <<>>]
    ELSE IF scop.skip[type] = NULL THEN [r |-> scop, fr |-> <<>>]
    ELSE IF ~multi_pw_aff_is_affine(scop.skip[type])
    THEN [r |-> NULL, fr |-> pet_scop_free(scop)]
    ELSE LET skip == isl_multi_pw_aff_get_pw_aff(scop.skip[type])
             dom == [pts |-> isl_pw_aff_domain(skip),
                     plain |-> isl_pw_aff_domain(skip) = PV,
                     params |-> skip.params]
             c == [pts |-> PVof(cond) \cap isl_pw_aff_non_zero_set(skip),
                   plain |-> PlainUniverse(cond) /\ skip.plain,
                   params |-> cond.params \cup skip.params]
         IN  [r |-> [scop EXCEPT !.skip[type] =
                        isl_multi_pw_aff_from_pw_aff(
                            indicator_function(c, dom), oid[type])],
              fr |-> isl_multi_pw_aff_free(scop.skip[type])]

\* The context taken where it does not hold: "cond" and not valid, or not
\* "cond".
RestrictContext_complement(context, cond) ==
    pet_nested_remove_from_set(
        isl_set_union(isl_set_intersect(isl_set_complement(context), cond),
                      isl_set_complement(cond)))

\* The context of pet_scop_restrict: valid and "cond", or not "cond".
RestrictContext(context, cond) ==
    pet_nested_remove_from_set(
        isl_set_union(isl_set_intersect(context, cond),
                      isl_set_complement(cond)))

\* pet_scop_restrict; the result is [r, fr].
pet_scop_restrict(scop, cond, oid, fail) ==
    LET r1 == pet_scop_restrict_skip(scop, "now", cond, oid)
        r2 == pet_scop_restrict_skip(r1.r, "later", cond, oid)
        fr == r1.fr \o r2.fr
    IN  IF r2.r = NULL THEN [r |-> NULL, fr |-> fr]
        ELSE IF fail = "context"
        THEN [r |-> NULL, fr |-> fr \o pet_scop_free(r2.r)]
        ELSE [r |-> [r2.r EXCEPT
                        !.context = RestrictContext(@, cond),
                        !.stmts = [k \in 1..Len(@) |-> stmt_restrict(@[k], cond)]],
              fr |-> fr]

(***************************************************************************)
(* Filters: making statements depend on the value of a test.               *)
(***************************************************************************)
\* isl_set_unwrap: the relation from iteration domain to argument values.
isl_set_unwrap(s) ==
    [params |-> s.params, id |-> s.id, nin |-> s.nin, nout |-> s.nout,
     pts |-> {[p |-> pt.p, it |-> pt.it, x |-> pt.a] : pt \in s.pts}]

\* isl_map_plain_get_val_if_fixed(map, isl_dim_out, pos): the value, or -1
\* (for NaN) if the dimension has no fixed value.
isl_map_plain_get_val_if_fixed(m, pos) ==
    IF m.pts # {} /\ \E v \in Bool01 : \A pt \in m.pts : pt.x[pos] = v
    THEN CHOOSE v \in Bool01 : \A pt \in m.pts : pt.x[pos] = v
    ELSE -1

\* isl_map_apply_range(map, extension)
isl_map_apply_range(m, ext) ==
    [m EXCEPT !.pts = {[p |-> pe[1].p, it |-> pe[1].it, x |-> pe[2].y] :
                          pe \in {q \in m.pts \X ext.pts :
                                     q[1].p = q[2].p /\ q[2].x = q[1].x}}]

\* The test extended to the iteration space with "nin" dimensions, as a map.
TestMap(test, nin) ==
    [params |-> test.params, id |-> test.id, virtual |-> TRUE, nin |-> nin,
     pts |-> {[p |-> q, it |-> t, x |-> Prefix(t, test.nin)] :
                 q \in PV, t \in Tuples(Val, nin)}]

\* pet_expr_from_index: a read access with the given index expression.
pet_expr_from_index(test, nin) ==
    [type |-> "access", acc |-> TestMap(test, nin),
     read |-> TRUE, write |-> FALSE, args |-> <<>>]

apply_implications(scop, map, id, satisfied) ==
    LET cand == {k \in 1..Len(scop.implications) :
                    /\ scop.implications[k].satisfied = satisfied
                    /\ scop.implications[k].extension.id = id}
    IN  IF cand = {} THEN map
        ELSE LET k == CHOOSE j \in cand : \A m \in cand : j <= m
             IN  isl_map_apply_range(map, scop.implications[k].extension)

implies_filter(scop, domain, pos, expr, test, satisfied) ==
    IF expr.type # "access" THEN FALSE
    ELSE IF test.id # pet_expr_access_get_id(expr) THEN FALSE
    ELSE IF isl_map_plain_get_val_if_fixed(domain, pos) # satisfied THEN FALSE
    ELSE isl_map_is_subset(test,
             apply_implications(scop, expr.acc, test.id, satisfied))

\* filter_implied without the shortcut for a scop without implications.
filter_implied_full(scop, stmt, test, satisfied) ==
    IF Len(stmt.args) = 0 THEN FALSE
    ELSE \E k \in 1..Len(stmt.args) :
            implies_filter(scop, isl_set_unwrap(stmt.domain), k,
                           stmt.args[k],
                           TestMap(test, stmt.domain.nin), satisfied)

\* filter_implied that never finds a filter to be implied.
filter_implied_never(scop, stmt, test, satisfied) == FALSE

filter_implied(scop, stmt, test, satisfied) ==
    IF Len(scop.implications) = 0 THEN FALSE
    ELSE IF Len(stmt.args) = 0 THEN FALSE
    ELSE \E k \in 1..Len(stmt.args) :
            implies_filter(scop, isl_set_unwrap(stmt.domain), k,
                           stmt.args[k],
                           TestMap(test, stmt.domain.nin), satisfied)

\* pet_filter_insert_pma followed by isl_set_preimage_pw_multi_aff: a new
\* first argument value, fixed to "satisfied", in the wrapped relation.
pet_filter_insert(domain, satisfied) ==
    [domain EXCEPT !.wrapped = TRUE, !.nout = @ + 1,
                   !.pts = {[p |-> pt.p, it |-> pt.it,
                             a |-> <<satisfied>> \o pt.a] : pt \in domain.pts}]

\* args_insert_access that appends the new argument instead.
args_insert_access_last(args, test, nin) ==
    args \o <<pet_expr_from_index(test, nin)>>

\* args_insert_access: the new list of arguments.
args_insert_access(args, test, nin) ==
    <<pet_expr_from_index(test, nin)>> \o args

\* stmt_filter; the result is [r, fr].
stmt_filter(scop, stmt, test, satisfied, fail) ==
    IF stmt = NULL \/ test = NULL
    THEN [r |-> NULL, fr |-> pet_stmt_free(stmt)]
    ELSE IF test.nin > stmt.domain.nin
    THEN [r |-> NULL, fr |-> pet_stmt_free(stmt)]
    ELSE IF filter_implied(scop, stmt, test, satisfied)
    THEN [r |-> stmt, fr |-> <<>>]
    ELSE IF fail = "args_alloc"
    THEN [r |-> NULL, fr |-> pet_stmt_free(stmt)]
    ELSE [r |-> [stmt EXCEPT
                    !.domain = pet_filter_insert(@, satisfied),
                    !.args = args_insert_access(@, test, stmt.domain.nin)],
          fr |-> <<>>]

\* pet_scop_filter_skip without the requirement on "satisfied".
pet_scop_filter_skip_any(scop, type, test, satisfied, oid) ==
    IF scop = NULL THEN [r |-> NULL, fr |-> <<>>]
    ELSE IF ~pet_scop_has_skip(scop, type) THEN [r |-> scop, fr |-> <<>>]
    ELSE IF pet_scop_has_universal_skip(scop, type)
    THEN pet_scop_set_skip(scop, type,
             IF test = NULL THEN NULL ELSE [test EXCEPT !.oid = oid[type]])
    ELSE [r |-> NULL, fr |-> pet_scop_free(scop)]

\* pet_scop_filter_skip that leaves a skip that is not affine as it is.
pet_scop_filter_skip_var(scop, type, test, satisfied, oid) ==
    IF scop = NULL THEN [r |-> NULL, fr |-> <<>>]
    ELSE IF ~pet_scop_has_skip(scop, type) THEN [r |-> scop, fr |-> <<>>]
    ELSE IF ~multi_pw_aff_is_affine(scop.skip[type])
    THEN [r |-> scop, fr |-> <<>>]
    ELSE IF satisfied = 1 /\ pet_scop_has_universal_skip(scop, type)
    THEN pet_scop_set_skip(scop, type,
             IF test = NULL THEN NULL ELSE [test EXCEPT !.oid = oid[type]])
    ELSE [r |-> NULL, fr |-> pet_scop_free(scop)]

\* pet_scop_filter_skip; the result is [r, fr].
pet_scop_filter_skip(scop, type, test, satisfied, oid) ==
    IF scop = NULL THEN [r |-> NULL, fr |-> <<>>]
    ELSE IF ~pet_scop_has_skip(scop, type) THEN [r |-> scop, fr |-> <<>>]
    ELSE IF satisfied = 1 /\ pet_scop_has_universal_skip(scop, type)
    THEN pet_scop_set_skip(scop, type,
             IF test = NULL THEN NULL ELSE [test EXCEPT !.oid = oid[type]])
    ELSE [r |-> NULL, fr |-> pet_scop_free(scop)]

\* The loop of pet_scop_filter over the statements from position k on; a
\* failing allocation (fail = "args_alloc") hits the last statement.
RECURSIVE FilterStmts(_, _, _, _, _)
FilterStmts(scop, k, test, satisfied, fail) ==
    IF k > Len(scop.stmts) THEN [r |-> scop, fr |-> <<>>]
    ELSE LET f == stmt_filter(scop, scop.stmts[k], test, satisfied,
                              IF k = Len(scop.stmts) THEN fail ELSE "")
             s == [scop EXCEPT !.stmts[k] = f.r]
         IN  IF f.r = NULL
             THEN [r |-> NULL, fr |-> f.fr \o pet_scop_free(s)]
             ELSE LET rest == FilterStmts(s, k + 1, test, satisfied, fail)
                  IN  [r |-> rest.r, fr |-> f.fr \o rest.fr]

\* pet_scop_filter; the result is [r, fr].  The test is released.
pet_scop_filter(scop, test, satisfied, oid, fail) ==
    LET r1 == pet_scop_filter_skip(scop, "now", test, satisfied, oid)
        r2 == pet_scop_filter_skip(r1.r, "later", test, satisfied, oid)
        fr == r1.fr \o r2.fr
    IN  IF r2.r = NULL \/ test = NULL
        THEN [r |-> NULL,
              fr |-> fr \o isl_multi_pw_aff_free(test) \o pet_scop_free(r2.r)]
        ELSE LET f == FilterStmts(r2.r, 1, test, satisfied, fail)
             IN  [r |-> f.r,
                  fr |-> fr \o f.fr \o isl_multi_pw_aff_free(test)]

(***************************************************************************)
(* Sequential and parallel composition.                                    *)
(***************************************************************************)
\* restrict_skip that leaves the scop alone when the skip is not affine.
restrict_skip_affine(scop, skip, oid, fail) ==
    IF scop = NULL \/ skip = NULL
    THEN [r |-> NULL, fr |-> isl_multi_pw_aff_free(skip) \o pet_scop_free(scop)]
    ELSE IF ~multi_pw_aff_is_affine(skip)
    THEN [r |-> scop, fr |-> isl_multi_pw_aff_free(skip)]
    ELSE LET pa == isl_multi_pw_aff_get_pw_aff(skip)
             zero == ParamSet(pa.params,
                              LAMBDA q : q \in isl_pw_aff_zero_set(pa))
             r == pet_scop_restrict(scop, zero, oid, fail)
         IN  [r |-> r.r, fr |-> isl_multi_pw_aff_free(skip) \o r.fr]

\* restrict_skip; the result is [r, fr].  The skip is released.
restrict_skip(scop, skip, oid, fail) ==
    IF scop = NULL \/ skip = NULL
    THEN [r |-> NULL, fr |-> isl_multi_pw_aff_free(skip) \o pet_scop_free(scop)]
    ELSE IF ~multi_pw_aff_is_affine(skip)
    THEN pet_scop_filter(scop, skip, 0, oid, fail)
    ELSE LET pa == isl_multi_pw_aff_get_pw_aff(skip)
             zero == ParamSet(pa.params,
                              LAMBDA q : q \in isl_pw_aff_zero_set(pa))
             r == pet_scop_restrict(scop, zero, oid, fail)
         IN  [r |-> r.r, fr |-> isl_multi_pw_aff_free(skip) \o r.fr]

\* pet_scop_add_seq without the propagation of the skip condition.
pet_scop_add_seq_noskip(scop1, scop2, oid, fail) ==
    pet_scop_add(scop1, scop2, oid, fail)

\* pet_scop_add_seq; oid.now2 and oid.later2 are the addresses of the skips
\* that are allocated when scop2 is restricted.
pet_scop_add_seq(scop1, scop2, oid, fail) ==
    IF scop1 # NULL /\ pet_scop_has_skip(scop1, "now")
    THEN LET r == restrict_skip(scop2, pet_scop_get_skip(scop1, "now"),
                                [now |-> oid.now2, later |-> oid.later2], fail)
             a == pet_scop_add(scop1, r.r, oid, fail)
         IN  [r |-> a.r, fr |-> r.fr \o a.fr]
    ELSE pet_scop_add(scop1, scop2, oid, fail)

\* pet_scop_add_par that propagates the skip condition like pet_scop_add_seq.
pet_scop_add_par_seq(scop1, scop2, oid, fail) ==
    pet_scop_add_seq(scop1, scop2, oid, fail)

pet_scop_add_par(scop1, scop2, oid, fail) ==
    pet_scop_add(scop1, scop2, oid, fail)


(***************************************************************************)
(* Equality of scops and of their parts.                                   *)
(***************************************************************************)
\* pet_loc_get_line (loc.c): the line of the location, -1 without location.
pet_loc_get_line(loc) == IF loc = NULL THEN -1 ELSE loc.line

\* pet_expr_is_equal (expr.c): the two expressions have the same structure.
pet_expr_is_equal(expr1, expr2) ==
    IF expr1 = NULL \/ expr2 = NULL THEN FALSE ELSE expr1 = expr2

\* pet_array_is_equal that compares the element sizes as well.
pet_array_is_equal_size(array1, array2) ==
    IF array1 = NULL \/ array2 = NULL THEN FALSE
    ELSE [array1 EXCEPT !.oid = array2.oid] = array2

pet_array_is_equal(array1, array2) ==
    IF array1 = NULL \/ array2 = NULL THEN FALSE
    ELSE IF ~isl_set_is_equal(array1.context, array2.context) THEN FALSE
    ELSE IF ~isl_set_is_equal(array1.extent, array2.extent) THEN FALSE
    ELSE IF (array1.value_bounds # NULL) # (array2.value_bounds # NULL)
    THEN FALSE
    ELSE IF array1.value_bounds # NULL
            /\ ~isl_set_is_equal(array1.value_bounds, array2.value_bounds)
    THEN FALSE
    ELSE IF array1.element_type # array2.element_type THEN FALSE
    ELSE IF array1.element_is_record # array2.element_is_record THEN FALSE
    ELSE IF array1.live_out # array2.live_out THEN FALSE
    ELSE IF array1.uniquely_defined # array2.uniquely_defined THEN FALSE
    ELSE IF array1.declared # array2.declared THEN FALSE
    ELSE IF array1.exposed # array2.exposed THEN FALSE
    ELSE TRUE

pet_stmt_is_equal(stmt1, stmt2) ==
    IF stmt1 = NULL \/ stmt2 = NULL THEN FALSE
    ELSE IF pet_loc_get_line(stmt1.loc) # pet_loc_get_line(stmt2.loc)
    THEN FALSE
    ELSE IF ~isl_set_is_equal(stmt1.domain, stmt2.domain) THEN FALSE
    ELSE IF ~isl_map_is_equal(stmt1.schedule, stmt2.schedule) THEN FALSE
    ELSE IF ~pet_expr_is_equal(stmt1.body, stmt2.body) THEN FALSE
    ELSE IF Len(stmt1.args) # Len(stmt2.args) THEN FALSE
    ELSE \A i \in 1..Len(stmt1.args) :
            pet_expr_is_equal(stmt1.args[i], stmt2.args[i])

pet_type_is_equal(type1, type2) ==
    IF type1 = NULL \/ type2 = NULL THEN FALSE
    ELSE type1.name = type2.name

pet_implication_is_equal(implication1, implication2) ==
    IF implication1 = NULL \/ implication2 = NULL THEN FALSE
    ELSE IF implication1.satisfied # implication2.satisfied THEN FALSE
    ELSE isl_map_is_equal(implication1.extension, implication2.extension)

pet_scop_is_equal(scop1, scop2) ==
    IF scop1 = NULL \/ scop2 = NULL THEN FALSE
    ELSE IF ~isl_set_is_equal(scop1.context, scop2.context) THEN FALSE
    ELSE IF ~isl_set_is_equal(scop1.context_value, scop2.context_value)
    THEN FALSE
    ELSE IF Len(scop1.types) # Len(scop2.types) THEN FALSE
    ELSE IF \E i \in 1..Len(scop1.types) :
               ~pet_type_is_equal(scop1.types[i], scop2.types[i]) THEN FALSE
    ELSE IF Len(scop1.arrays) # Len(scop2.arrays) THEN FALSE
    ELSE IF \E i \in 1..Len(scop1.arrays) :
               ~pet_array_is_equal(scop1.arrays[i], scop2.arrays[i]) THEN FALSE
    ELSE IF Len(scop1.stmts) # Len(scop2.stmts) THEN FALSE
    ELSE IF \E i \in 1..Len(scop1.stmts) :
               ~pet_stmt_is_equal(scop1.stmts[i], scop2.stmts[i]) THEN FALSE
    ELSE IF Len(scop1.implications) # Len(scop2.implications) THEN FALSE
    ELSE \A i \in 1..Len(scop1.implications) :
            pet_implication_is_equal(scop1.implications[i],
                                     scop2.implications[i])

(***************************************************************************)
(* Alignment of the parameters.  Where the order of the parameters counts, *)
(* "params" is the list of them instead of the set.                        *)
(***************************************************************************)
Range(seq) == {seq[k] : k \in 1..Len(seq)}

\* isl_space_align_params(space, model): the parameters of "space" followed
\* by those of "model" that "space" does not have.
isl_space_align_params(space, model) ==
    space \o SelectSeq(model, LAMBDA x : x \notin Range(space))

\* isl_set_align_params(set, model): the parameters of "model" followed by
\* those of the set that "model" does not have.
isl_set_align_params(set, model) ==
    [set EXCEPT !.params = model \o SelectSeq(@, LAMBDA x : x \notin Range(model))]

isl_map_align_params(map, model) == isl_set_align_params(map, model)

RECURSIVE expr_collect_params(_, _)
RECURSIVE args_collect_params(_, _, _)
args_collect_params(args, k, space) ==
    IF k > Len(args) THEN space
    ELSE args_collect_params(args, k + 1, expr_collect_params(args[k], space))

expr_collect_params(expr, space) ==
    LET sp == args_collect_params(expr.args, 1, space)
    IN  IF expr.type = "access"
        THEN isl_space_align_params(sp, expr.acc.params)
        ELSE sp

stmt_collect_params(stmt, space) ==
    LET s1 == isl_space_align_params(space, stmt.domain.params)
        s2 == isl_space_align_params(s1, stmt.schedule.params)
        s3 == args_collect_params(stmt.args, 1, s2)
    IN  expr_collect_params(stmt.body, s3)

array_collect_params(array, space) ==
    isl_space_align_params(
        isl_space_align_params(space, array.context.params),
        array.extent.params)

RECURSIVE arrays_collect_params(_, _, _)
arrays_collect_params(arrays, k, space) ==
    IF k > Len(arrays) THEN space
    ELSE arrays_collect_params(arrays, k + 1,
                               array_collect_params(arrays[k], space))

RECURSIVE stmts_collect_params(_, _, _)
stmts_collect_params(stmts, k, space) ==
    IF k > Len(stmts) THEN space
    ELSE stmts_collect_params(stmts, k + 1,
                              stmt_collect_params(stmts[k], space))

scop_collect_params(scop, space) ==
    stmts_collect_params(scop.stmts, 1,
                         arrays_collect_params(scop.arrays, 1, space))

\* pet_expr_align_params (expr.c): the access relations of the expression
\* and of its arguments get the parameters of "space".
RECURSIVE pet_expr_align_params(_, _)
pet_expr_align_params(expr, space) ==
    LET e == [expr EXCEPT !.args = [k \in 1..Len(@) |->
                                       pet_expr_align_params(@[k], space)]]
    IN  IF expr.type = "access"
        THEN [e EXCEPT !.acc = isl_map_align_params(@, space)]
        ELSE e

\* stmt_propagate_params that leaves the schedule as it is.
stmt_propagate_params_domain(stmt, space) ==
    [stmt EXCEPT
       !.domain = isl_set_align_params(@, space),
       !.args = [k \in 1..Len(@) |-> pet_expr_align_params(@[k], space)],
       !.body = pet_expr_align_params(@, space)]

stmt_propagate_params(stmt, space) ==
    [stmt EXCEPT
       !.domain = isl_set_align_params(@, space),
       !.schedule = isl_map_align_params(@, space),
       !.args = [k \in 1..Len(@) |-> pet_expr_align_params(@[k], space)],
       !.body = pet_expr_align_params(@, space)]

array_propagate_params(array, space) ==
    [array EXCEPT
       !.context = isl_set_align_params(@, space),
       !.extent = isl_set_align_params(@, space),
       !.value_bounds = IF @ = NULL THEN NULL
                        ELSE isl_set_align_params(@, space)]

scop_propagate_params(scop, space) ==
    [scop EXCEPT
       !.arrays = [k \in 1..Len(@) |-> array_propagate_params(@[k], space)],
       !.stmts = [k \in 1..Len(@) |-> stmt_propagate_params(@[k], space)]]

pet_scop_align_params(scop) ==
    IF scop = NULL THEN NULL
    ELSE LET space == scop_collect_params(scop, scop.context.params)
         IN  scop_propagate_params(
                 [scop EXCEPT !.context = isl_set_align_params(@, space)],
                 space)

(***************************************************************************)
(* Embedding in an extra outer loop.  The loop has the iteration domain    *)
(* "dom" (one dimension), the schedule "sched" and the map "iv_map" from   *)
(* the virtual to the real iterator, both affine: j |-> k * j + c.         *)
(***************************************************************************)
Aff(f, j) == f.k * j + f.c

\* The flat product with the new dimension put last.
isl_set_flat_product_last(dom, s) ==
    [s EXCEPT !.params = s.params \cup dom.params, !.nin = @ + 1,
              !.pts = {[p |-> dp[2].p, it |-> dp[2].it \o dp[1].it,
                        a |-> dp[2].a] :
                          dp \in {q \in dom.pts \X s.pts : q[1].p = q[2].p}}]

\* isl_set_flat_product(dom, set): the new dimension comes first.
isl_set_flat_product(dom, s) ==
    [s EXCEPT !.params = s.params \cup dom.params, !.nin = @ + 1,
              !.pts = {[p |-> dp[2].p, it |-> dp[1].it \o dp[2].it,
                        a |-> dp[2].a] :
                          dp \in {q \in dom.pts \X s.pts : q[1].p = q[2].p}}]

\* internalize_iv on a set: the parameter VarId is equated to iv_map of the
\* first set dimension and projected out.
internalize_iv(s, iv_map) ==
    ProjectOutParam(
        [s EXCEPT !.pts = {pt \in @ : pt.p[VarId] = Aff(iv_map, pt.it[1])}],
        VarId)

\* internalize_iv on a wrapped relation with points [p, it, x].
internalize_iv_map(m, iv_map) ==
    [m EXCEPT !.params = @ \ {VarId},
              !.pts = {[p |-> qp[1], it |-> qp[2].it, x |-> qp[2].x] :
                          qp \in {r \in PV \X m.pts :
                                     /\ SameBut(r[1], r[2].p, VarId)
                                     /\ r[2].p[VarId] =
                                            Aff(iv_map, r[2].it[1])}}]

\* embed_access_relation, after pet_expr_access_update_domain has inserted
\* the outer dimension in the domain of the access.
embed_access_relation(access, iv_map) ==
    LET ext == [access EXCEPT
                  !.nin = @ + 1,
                  !.pts = {[p |-> pt.p, it |-> <<j>> \o pt.it, x |-> pt.x] :
                              pt \in access.pts, j \in Val}]
        a1 == IF access.id = VarId
              THEN [ext EXCEPT !.id = "",
                       !.pts = {[p |-> pt.p, it |-> pt.it,
                                 x |-> <<Aff(iv_map, pt.it[1])>> \o pt.x] :
                                   pt \in ext.pts}]
              ELSE IF access.id # "" /\ access.virtual
              THEN [ext EXCEPT
                       !.pts = {[p |-> pt.p, it |-> pt.it,
                                 x |-> <<pt.it[1]>> \o pt.x] : pt \in ext.pts}]
              ELSE ext
    IN  IF VarId \in a1.params THEN internalize_iv_map(a1, iv_map) ELSE a1

\* expr_embed: embed_access on every access subexpression.
RECURSIVE expr_embed(_, _)
expr_embed(expr, iv_map) ==
    LET args == [k \in 1..Len(expr.args) |-> expr_embed(expr.args[k], iv_map)]
    IN  IF expr.type = "access"
        THEN [expr EXCEPT !.args = args,
                          !.acc = embed_access_relation(@, iv_map)]
        ELSE [expr EXCEPT !.args = args]

\* The schedule of an embedded statement: the flat product with "sched".
EmbedSchedule(schedule, sched) ==
    [schedule EXCEPT
        !.nin = @ + 1, !.nout = @ + 1,
        !.pts = {[p |-> pt.p, it |-> <<j>> \o pt.it,
                  x |-> <<Aff(sched, j)>> \o pt.x] :
                    pt \in schedule.pts, j \in Val}]

\* isl_map_wrap: the relation from iteration domain to argument values as a
\* set.
isl_map_wrap(m) ==
    [params |-> m.params, id |-> m.id, virtual |-> FALSE, wrapped |-> TRUE,
     nin |-> m.nin, nout |-> m.nout,
     pts |-> {[p |-> pt.p, it |-> pt.it, a |-> pt.x] : pt \in m.pts}]

\* isl_map_flat_domain_product of { dom -> universe } and the relation: the
\* new dimension comes first in the domain, the range is as it was.
isl_map_flat_domain_product(dom, m) ==
    [m EXCEPT !.params = m.params \cup dom.params, !.nin = @ + 1,
              !.pts = {[p |-> dp[2].p, it |-> dp[1].it \o dp[2].it,
                        x |-> dp[2].x] :
                          dp \in {q \in dom.pts \X m.pts : q[1].p = q[2].p}}]

\* pet_stmt_embed that loses the arguments of the statement.
pet_stmt_embed_noargs(stmt, dom, sched, iv_map, fail) ==
    [r |-> [stmt EXCEPT !.domain = isl_set_flat_product(dom, @),
                        !.args = <<>>], fr |-> <<>>]

\* pet_stmt_embed; the result is [r, fr].
pet_stmt_embed(stmt, dom, sched, iv_map, fail) ==
    IF stmt = NULL THEN [r |-> NULL, fr |-> <<>>]
    ELSE IF fail = "embed_stmt"
    THEN [r |-> NULL, fr |-> pet_stmt_free(stmt)]
    ELSE LET d0 == IF isl_set_is_wrapping(stmt.domain)
                   THEN isl_map_wrap(isl_map_flat_domain_product(
                            dom, isl_set_unwrap(stmt.domain)))
                   ELSE isl_set_flat_product(dom, stmt.domain)
             d1 == IF HasParam(d0, VarId) THEN internalize_iv(d0, iv_map)
                   ELSE d0
             s0 == EmbedSchedule(stmt.schedule, sched)
             s1 == IF VarId \in s0.params THEN internalize_iv_map(s0, iv_map)
                   ELSE s0
         IN  [r |-> [stmt EXCEPT
                        !.domain = d1, !.schedule = s1,
                        !.args = [k \in 1..Len(@) |-> expr_embed(@[k], iv_map)],
                        !.body = expr_embed(@, iv_map)],
              fr |-> <<>>]

\* extent_is_virtual_array
extent_is_virtual_array(extent) ==
    extent.id # "" /\ ~isl_set_is_wrapping(extent) /\ extent.virtual

\* pet_array_embed that grows every array.
pet_array_embed_all(array, dom) ==
    [array EXCEPT !.extent = isl_set_flat_product(dom, @)]

pet_array_embed(array, dom) ==
    IF array = NULL THEN NULL
    ELSE IF ~extent_is_virtual_array(array.extent) THEN array
    ELSE [array EXCEPT !.extent = isl_set_flat_product(dom, @)]

\* The context kept as it is.
context_embed_none(context, dom, iv_map) == context

context_embed(context, dom, iv_map) ==
    IF ~HasParam(context, VarId) THEN context
    ELSE LET bad == {d \in dom.pts :
                        [d.p EXCEPT ![VarId] = Aff(iv_map, d.it[1])]
                            \notin PVof(context)}
             inv == {pt \in AllPts(0, 0) :
                        \E d \in bad : SameBut(d.p, pt.p, VarId)}
         IN  pet_nested_remove_from_set(
                 [context EXCEPT !.params = (@ \ {VarId}) \cup dom.params,
                                 !.pts = AllPts(0, 0) \ inv])

pet_implication_embed(implication, dom) ==
    IF implication = NULL THEN NULL
    ELSE [implication EXCEPT
            !.extension.n = @ + 1,
            !.extension.pts =
                {[p |-> de[2].p, x |-> de[1].it \o de[2].x,
                  y |-> de[1].it \o de[2].y] :
                    de \in {q \in dom.pts \X implication.extension.pts :
                               q[1].p = q[2].p}}]

\* The loop of pet_scop_embed over the statements from position k on; a
\* failure (fail = "embed_stmt") hits the last statement.
RECURSIVE EmbedStmts(_, _, _, _, _, _)
EmbedStmts(scop, k, dom, sched, iv_map, fail) ==
    IF k > Len(scop.stmts) THEN [r |-> scop, fr |-> <<>>]
    ELSE LET f == pet_stmt_embed(scop.stmts[k], dom, sched, iv_map,
                                 IF k = Len(scop.stmts) THEN fail ELSE "")
             s == [scop EXCEPT !.stmts[k] = f.r]
         IN  IF f.r = NULL
             THEN [r |-> NULL, fr |-> f.fr \o pet_scop_free(s)]
             ELSE LET rest == EmbedStmts(s, k + 1, dom, sched, iv_map, fail)
                  IN  [r |-> rest.r, fr |-> f.fr \o rest.fr]

\* pet_scop_embed that keeps the skip conditions.
pet_scop_embed_keepskip(scop, dom, sched, iv_map, fail) ==
    IF scop = NULL THEN [r |-> NULL, fr |-> <<>>]
    ELSE EmbedStmts([scop EXCEPT !.context = context_embed(@, dom, iv_map)],
                    1, dom, sched, iv_map, fail)

\* pet_scop_embed; the result is [r, fr].
pet_scop_embed(scop, dom, sched, iv_map, fail) ==
    IF scop = NULL THEN [r |-> NULL, fr |-> <<>>]
    ELSE LET r1 == pet_scop_reset_skip(scop, "now")
             r2 == pet_scop_reset_skip(r1.r, "later")
             s0 == [r2.r EXCEPT !.context = context_embed(@, dom, iv_map)]
             f == EmbedStmts(s0, 1, dom, sched, iv_map, fail)
         IN  IF f.r = NULL
             THEN [r |-> NULL, fr |-> r1.fr \o r2.fr \o f.fr]
             ELSE [r |-> [f.r EXCEPT
                            !.arrays = [k \in 1..Len(@) |->
                                           pet_array_embed(@[k], dom)],
                            !.implications = [k \in 1..Len(@) |->
                                           pet_implication_embed(@[k], dom)]],
                   fr |-> r1.fr \o r2.fr \o f.fr]


(***************************************************************************)
(* Intersection of the initial dimensions of the domains with a set.       *)
(***************************************************************************)
\* The preimage of "domain" over the projection onto the first dimensions.
InPrefix(domain, p, it) ==
    [p |-> p, it |-> Prefix(it, domain.nin), a |-> <<>>] \in domain.pts

virtual_array_intersect_domain_prefix(array, domain) ==
    IF array = NULL \/ ~extent_is_virtual_array(array.extent) THEN array
    ELSE [array EXCEPT
            !.extent.params = @ \cup domain.params,
            !.extent.pts = {pt \in @ : InPrefix(domain, pt.p, pt.it)}]

stmt_intersect_domain_prefix(stmt, domain) ==
    IF stmt = NULL THEN NULL
    ELSE [stmt EXCEPT
            !.domain.params = @ \cup domain.params,
            !.domain.pts = {pt \in @ : InPrefix(domain, pt.p, pt.it)}]

implication_intersect_domain_prefix(implication, domain) ==
    IF implication = NULL THEN NULL
    ELSE [implication EXCEPT
            !.extension.pts = {e \in @ : InPrefix(domain, e.p, e.x)}]

\* pet_scop_intersect_domain_prefix; the result is [r, fr].  A domain with
\* more dimensions than a statement or array makes the intersection fail.
pet_scop_intersect_domain_prefix(scop, domain) ==
    IF scop = NULL THEN [r |-> NULL, fr |-> <<>>]
    ELSE IF \/ \E k \in 1..Len(scop.stmts) :
                  domain.nin > scop.stmts[k].domain.nin
            \/ \E k \in 1..Len(scop.arrays) :
                  /\ extent_is_virtual_array(scop.arrays[k].extent)
                  /\ domain.nin > scop.arrays[k].extent.nin
            \/ \E k \in 1..Len(scop.implications) :
                  domain.nin > scop.implications[k].extension.n
    THEN [r |-> NULL, fr |-> pet_scop_free(scop)]
    ELSE [r |-> [scop EXCEPT
                    !.arrays = [k \in 1..Len(@) |->
                        virtual_array_intersect_domain_prefix(@[k], domain)],
                    !.stmts = [k \in 1..Len(@) |->
                        stmt_intersect_domain_prefix(@[k], domain)],
                    !.implications = [k \in 1..Len(@) |->
                        implication_intersect_domain_prefix(@[k], domain)]],
          fr |-> <<>>]

(***************************************************************************)
(* Gist.  isl_set_gist(set, context) returns a set that agrees with "set"  *)
(* on "context"; "mode" selects the result: the set itself ("keep") or the *)
(* set with the constraints implied by the context dropped ("drop").       *)
(***************************************************************************)
\* A simplification to the universe, whatever the set.
isl_set_gist_universe(s, context, mode) == isl_set_universe(s)

isl_set_gist(s, context, mode) ==
    IF mode = "keep" THEN s
    ELSE [s EXCEPT !.pts = @ \cup (AllPts(s.nin, s.nout) \ context.pts)]

stmt_gist(stmt, context, mode) ==
    IF stmt = NULL THEN NULL
    ELSE [stmt EXCEPT !.domain =
             isl_set_gist(@, isl_set_intersect_params(
                                 isl_set_universe(stmt.domain), context), mode)]

array_gist(array, context, mode) ==
    IF array = NULL THEN NULL
    ELSE [array EXCEPT !.extent =
             isl_set_gist(@, isl_set_intersect_params(
                                 isl_set_universe(array.extent), context), mode)]

pet_scop_gist(scop, mode) ==
    IF scop = NULL THEN NULL
    ELSE [scop EXCEPT
            !.arrays = [k \in 1..Len(@) |-> array_gist(@[k], scop.context, mode)],
            !.stmts = [k \in 1..Len(@) |-> stmt_gist(@[k], scop.context, mode)]]

(***************************************************************************)
(* Arrays and implications added to a scop.                                *)
(***************************************************************************)
\* pet_scop_add_array; the result is [r, fr].
pet_scop_add_array(scop, array, fail) ==
    IF array = NULL \/ scop = NULL \/ fail = "arrays_realloc"
    THEN [r |-> NULL, fr |-> pet_array_free(array) \o pet_scop_free(scop)]
    ELSE [r |-> [scop EXCEPT !.arrays = Append(@, array)], fr |-> <<>>]

\* pet_scop_add_boolean_array: the virtual array accessed by "index".
pet_scop_add_boolean_array(scop, index, int_size, oid, fail) ==
    IF scop = NULL \/ index = NULL \/ fail = "array_alloc"
    THEN [r |-> NULL, fr |-> isl_multi_pw_aff_free(index) \o pet_scop_free(scop)]
    ELSE pet_scop_add_array(scop,
             [oid |-> oid,
              context |-> isl_set_universe_params,
              extent |-> [params |-> {}, id |-> index.id, virtual |-> TRUE,
                          wrapped |-> FALSE, nin |-> index.nin, nout |-> 0,
                          pts |-> AllPts(index.nin, 0)],
              value_bounds |-> [params |-> {}, id |-> "", virtual |-> FALSE,
                                wrapped |-> FALSE, nin |-> 1, nout |-> 0,
                                pts |-> {pt \in AllPts(1, 0) :
                                            pt.it[1] \in Bool01}],
              element_type |-> "int", element_size |-> int_size,
              element_is_record |-> FALSE, live_out |-> FALSE,
              uniquely_defined |-> TRUE, declared |-> FALSE,
              exposed |-> FALSE], fail)

\* pet_scop_add_implication; the result is [r, fr].
pet_scop_add_implication(scop, map, satisfied, oid, fail) ==
    LET implication == IF fail = "implication_alloc" THEN NULL
                       ELSE [oid |-> oid, extension |-> map,
                             satisfied |-> satisfied]
    IN  IF scop = NULL \/ implication = NULL
        THEN [r |-> NULL, fr |-> pet_implication_free(implication) \o
                                 pet_scop_free(scop)]
        ELSE [r |-> [scop EXCEPT !.implications = Append(@, implication)],
              fr |-> <<>>]


(***************************************************************************)
(* Collection of the access relations (without reference identifiers).  A  *)
(* union of relations is the set of its elements [stmt, id, p, it, x]:      *)
(* iteration "it" of statement "stmt" accesses element "x" of array "id".  *)
(***************************************************************************)
pet_stmt_is_kill(stmt) ==
    stmt # NULL /\ stmt.body.type = "op" /\ stmt.body.op = "kill"

\* pet_expr_access_get_may_access: the access relation, with the values of
\* the arguments (the last coordinates of its domain) projected out.
pet_expr_access_get_may_access(expr) ==
    IF Len(expr.args) = 0 THEN expr.acc
    ELSE [expr.acc EXCEPT
            !.pts = {[p |-> pt.p,
                      it |-> Prefix(pt.it, Len(pt.it) - Len(expr.args)),
                      x |-> pt.x] : pt \in @}]

\* isl_map_domain(isl_set_unwrap(domain)): the iterations of a wrapped domain.
isl_map_domain_unwrap(domain) ==
    [domain EXCEPT !.wrapped = FALSE, !.nout = 0,
                   !.pts = {[p |-> pt.p, it |-> pt.it, a |-> <<>>] : pt \in @}]

expr_collect_access(expr, accesses, domain) ==
    LET access == pet_expr_access_get_may_access(expr)
    IN  accesses \cup
        {[stmt |-> domain.id, id |-> access.id, p |-> pt.p, it |-> pt.it,
          x |-> pt.x] :
            pt \in {q \in access.pts :
                       [p |-> q.p, it |-> q.it, a |-> <<>>] \in domain.pts}}

RECURSIVE expr_collect_accesses(_, _, _, _, _, _)
RECURSIVE args_collect_accesses(_, _, _, _, _, _, _)
args_collect_accesses(args, k, read, write, must, accesses, domain) ==
    IF k > Len(args) THEN accesses
    ELSE args_collect_accesses(args, k + 1, read, write, must,
             expr_collect_accesses(args[k], read, write, must, accesses,
                                   domain),
             domain)

expr_collect_accesses(expr, read, write, must, accesses, domain) ==
    LET acc1 == args_collect_accesses(expr.args, 1, read, write, must,
                                      accesses, domain)
    IN  IF /\ expr.type = "access" /\ ~pet_expr_is_affine(expr)
           /\ ((read /\ expr.read) \/ (write /\ expr.write))
           /\ (~must \/ Len(expr.args) = 0)
        THEN expr_collect_access(expr, acc1, domain)
        ELSE acc1

\* stmt_collect_accesses that collects from statements with arguments also
\* when "must" is set.
stmt_collect_accesses_args(stmt, read, write, kill, must) ==
    LET domain == IF isl_set_is_wrapping(stmt.domain)
                  THEN isl_map_domain_unwrap(stmt.domain)
                  ELSE stmt.domain
    IN  IF kill
        THEN expr_collect_access(stmt.body.args[1], {}, domain)
        ELSE expr_collect_accesses(stmt.body, read, write, must, {}, domain)

stmt_collect_accesses(stmt, read, write, kill, must) ==
    IF must /\ Len(stmt.args) > 0 THEN {}
    ELSE LET domain == IF isl_set_is_wrapping(stmt.domain)
                       THEN isl_map_domain_unwrap(stmt.domain)
                       ELSE stmt.domain
         IN  IF kill
             THEN expr_collect_access(stmt.body.args[1], {}, domain)
             ELSE expr_collect_accesses(stmt.body, read, write, must, {},
                                        domain)

\* compute_to_inner for arrays without members: the identity on the extent
\* of each array of a primitive type, as the set of the array elements.
compute_to_inner(scop) ==
    UNION {{[id |-> scop.arrays[k].extent.id, x |-> pt.it] :
               pt \in scop.arrays[k].extent.pts} :
           k \in {j \in 1..Len(scop.arrays) :
                     ~scop.arrays[j].element_is_record}}

scop_collect_accesses(scop, read, write, kill, must) ==
    IF scop = NULL THEN NULL
    ELSE LET accesses ==
                 UNION {stmt_collect_accesses(scop.stmts[k], read, write,
                                              kill, must) :
                        k \in {j \in 1..Len(scop.stmts) :
                                  ~kill \/ pet_stmt_is_kill(scop.stmts[j])}}
             arrays ==
                 UNION {{[id |-> scop.arrays[k].extent.id, x |-> pt.it] :
                            pt \in scop.arrays[k].extent.pts} :
                        k \in 1..Len(scop.arrays)}
             in_range == {a \in accesses : [id |-> a.id, x |-> a.x] \in arrays}
         IN  {a \in in_range : [id |-> a.id, x |-> a.x] \in compute_to_inner(scop)}

pet_scop_collect_may_reads(scop) ==
    scop_collect_accesses(scop, TRUE, FALSE, FALSE, FALSE)
pet_scop_collect_may_writes(scop) ==
    scop_collect_accesses(scop, FALSE, TRUE, FALSE, FALSE)
pet_scop_collect_must_writes(scop) ==
    scop_collect_accesses(scop, FALSE, TRUE, FALSE, TRUE)
pet_scop_collect_must_kills(scop) ==
    scop_collect_accesses(scop, FALSE, FALSE, TRUE, TRUE)

(***************************************************************************)
(* The original source of a scop.  A file holds a sequence of bytes; a     *)
(* printer prints to a file (with the bytes written so far) or to a string *)
(* (file = NULL).                                                          *)
(***************************************************************************)
pet_loc_get_start(loc) == loc.start
pet_loc_get_end(loc) == loc.end

pet_scop_set_input_file(scop, input) ==
    IF scop = NULL THEN NULL ELSE [scop EXCEPT !.input = input]

isl_printer_get_file(p) == p.file

\* isl_printer_free: the printer is released and null is returned.
isl_printer_free(p) == [r |-> NULL, released |-> p # NULL, copied |-> <<>>]

\* copy: the bytes at offsets start .. end - 1 of "input" are appended to
\* "output".
copy(input, output, start, end) ==
    [r |-> 0,
     output |-> [bytes |-> output.bytes \o SubSeq(input.bytes, start + 1, end)]]

\* The bytes copied from the beginning of the file.
pet_scop_print_original_head(scop, p) ==
    IF scop = NULL \/ p = NULL THEN isl_printer_free(p)
    ELSE IF scop.input = NULL THEN isl_printer_free(p)
    ELSE IF isl_printer_get_file(p) = NULL THEN isl_printer_free(p)
    ELSE LET c == copy(scop.input, isl_printer_get_file(p), 0,
                       pet_loc_get_end(scop.loc))
         IN  [r |-> [p EXCEPT !.file = c.output], released |-> FALSE,
              copied |-> SubSeq(c.output.bytes, Len(p.file.bytes) + 1,
                                Len(c.output.bytes))]

\* pet_scop_print_original: r is the printer that is returned, "released"
\* tells that the printer was released and "copied" is what was written.
pet_scop_print_original(scop, p) ==
    IF scop = NULL \/ p = NULL THEN isl_printer_free(p)
    ELSE IF scop.input = NULL THEN isl_printer_free(p)
    ELSE LET output == isl_printer_get_file(p)
         IN  IF output = NULL THEN isl_printer_free(p)
             ELSE LET start == pet_loc_get_start(scop.loc)
                      end == pet_loc_get_end(scop.loc)
                      c == copy(scop.input, output, start, end)
                  IN  IF c.r < 0 THEN isl_printer_free(p)
                      ELSE [r |-> [p EXCEPT !.file = c.output],
                            released |-> FALSE,
                            copied |-> SubSeq(c.output.bytes,
                                              Len(output.bytes) + 1,
                                              Len(c.output.bytes))]

(***************************************************************************)
(* The inputs of the front end.                                            *)
(***************************************************************************)
\* Skip conditions: the constant 1, the condition n >= 1, a condition that
\* is defined (and zero) for n = 0 only, and an access to the variable t0.
SkipUniversal == [oid |-> TmpOid, id |-> "", nin |-> 0, params |-> {},
                  dom |-> PV, nz |-> PV, plain |-> TRUE]
SkipN == [oid |-> TmpOid, id |-> "", nin |-> 0, params |-> {"n"},
          dom |-> PV, nz |-> {q \in PV : q.n >= 1}, plain |-> FALSE]
SkipPartial == [oid |-> TmpOid, id |-> "", nin |-> 0, params |-> {"n"},
                dom |-> {q \in PV : q.n = 0}, nz |-> {}, plain |-> FALSE]
SkipVar == [oid |-> TmpOid, id |-> "t0", nin |-> 0, params |-> {},
            dom |-> PV, nz |-> {}, plain |-> FALSE]
SkipInputs == [now |-> {SkipUniversal, SkipN, SkipPartial, SkipVar},
               later |-> {SkipN, SkipVar}]

\* pet_create_test_index: the index expression { [] -> t0[] }.
pet_create_test_index == SkipVar
TestInputs == {pet_create_test_index}

\* A second test variable: the index expression { [] -> t1[] }.
SecondTest == [pet_create_test_index EXCEPT !.id = "t1"]

\* Conditions on the parameters.
CondN == ParamSet({"n"}, LAMBDA q : q.n >= 1)
CondInputs == {CondN}

\* Loops: the domain { [j] : 0 <= j < 1 + n }, with the identity schedule
\* and either the identity or the reversal as the map to the real iterator.
LoopDom == [params |-> {"n"}, id |-> "", virtual |-> FALSE, wrapped |-> FALSE,
            nin |-> 1, nout |-> 0,
            pts |-> {pt \in AllPts(1, 0) : pt.it[1] < 1 + pt.p.n}]
AffIdentity == [k |-> 1, c |-> 0]
AffReverse == [k |-> -1, c |-> 1]
LoopInputs == {[dom |-> LoopDom, sched |-> AffIdentity, iv_map |-> f] :
                  f \in {AffIdentity, AffReverse}}

\* A second loop around the first one, with a single iteration.
OuterLoopInputs == {[dom |-> [params |-> {}, id |-> "", virtual |-> FALSE,
                              wrapped |-> FALSE, nin |-> 1, nout |-> 0,
                              pts |-> {pt \in AllPts(1, 0) : pt.it[1] = 0}],
                     sched |-> AffIdentity, iv_map |-> AffIdentity]}

\* A prefix domain: the first iteration only.
PrefixDom == [params |-> {}, id |-> "", virtual |-> FALSE, wrapped |-> FALSE,
              nin |-> 1, nout |-> 0,
              pts |-> {pt \in AllPts(1, 0) : pt.it[1] = 0}]

\* A named array, as the front end extracts it from a declaration.
ArrayA(oid) ==
    [oid |-> oid, context |-> isl_set_universe_params,
     extent |-> [params |-> {}, id |-> "A", virtual |-> FALSE,
                 wrapped |-> FALSE, nin |-> 1, nout |-> 0,
                 pts |-> AllPts(1, 0)],
     value_bounds |-> NULL, element_type |-> "float", element_size |-> 4,
     element_is_record |-> FALSE, live_out |-> TRUE,
     uniquely_defined |-> FALSE, declared |-> FALSE, exposed |-> FALSE]

\* The extension of an implication on the virtual array t0: every element
\* to itself.
ExtIdentity == [id |-> "t0", n |-> 0,
                pts |-> {[p |-> q, x |-> <<>>, y |-> <<>>] : q \in PV}]

LocInputs == {[start |-> 0, end |-> 3, line |-> 1]}

\* Record types as the front end collects them: the same type printed in two
\* ways, and another type.
TypeInputs == {[name |-> "s", definition |-> "struct s { int a; }"],
               [name |-> "s", definition |-> "struct s {\n    int a;\n}"],
               [name |-> "t", definition |-> "struct s { int a; }"]}

\* The sizes of an array element on two targets.
ElementSizes == {4, 8}

\* A[B[n - 1]], written: an access with the read of B as its argument; the
\* domain of the relation holds the value of the argument.
AccessAofB ==
    [Access("A", FALSE, {}, 0,
            {[p |-> q, it |-> <<b>>, x |-> <<b>>] : q \in PV, b \in Val},
            FALSE, TRUE) EXCEPT !.args = <<AccessB>>]
\* A[n], killed.
AccessKill == [AccessA EXCEPT !.read = FALSE, !.write = FALSE]
\* B[n - 1], written.
AccessBw == [AccessB EXCEPT !.read = FALSE, !.write = TRUE]

BodyIndirect == Op("assign", <<AccessAofB, AccessIv>>)
BodyKill == Op("kill", <<AccessKill>>)
BodyBA == Op("assign", <<AccessBw, [AccessA EXCEPT !.read = TRUE, !.write = FALSE]>>)
AccessBodies == {BodyIndirect, BodyKill, BodyBA}

\* The array A declared with one element.
ArrayA1(oid) ==
    [ArrayA(oid) EXCEPT !.extent.pts = {pt \in @ : pt.it[1] = 0}]

\* The source file, and the byte ranges of the regions found in it.
InputFile == [bytes |-> <<"a", "b", "c", "d", "e">>]
Regions == {<<1, 2>>, <<1, 4>>, <<2, 2>>, <<2, 5>>}

\* The printers: to an empty file, to a file with something in it, to a
\* string.
Printers == {[file |-> [bytes |-> <<>>]], [file |-> [bytes |-> <<"x">>]],
             [file |-> NULL]}

(***************************************************************************)
(* The state: two scops under construction (pool), the record of the last  *)
(* operation (last: its name, its operands a and b before the call, its    *)
(* inputs, its result r and the objects it released, fr) and the number of *)
(* operations so far.                                                      *)
(***************************************************************************)
SkipOids(scop) ==
    isl_multi_pw_aff_free(scop.skip.now) \o isl_multi_pw_aff_free(scop.skip.later)

\* The objects a scop owns, the scop included.
Owned(scop) ==
    IF scop = NULL THEN {}
    ELSE {scop.oid} \cup
         {SeqOids(scop.stmts)[k] : k \in 1..Len(SeqOids(scop.stmts))} \cup
         {SeqOids(scop.arrays)[k] : k \in 1..Len(SeqOids(scop.arrays))} \cup
         {SeqOids(scop.implications)[k] :
             k \in 1..Len(SeqOids(scop.implications))} \cup
         {SkipOids(scop)[k] : k \in 1..Len(SkipOids(scop))}

LiveOids == UNION {Owned(pool[s]) : s \in Slots}

\* The k-th address that is not in use.
OidSpace == 1..40
NthFree(k) ==
    CHOOSE x \in OidSpace \ LiveOids :
        Cardinality({y \in OidSpace \ LiveOids : y < x}) = k - 1

\* Every use of the virtual array "id" in the scop has "n" dimensions: the
\* front end refers to an array with the dimensions it has.
UsesOnly(scop, id, n) ==
    /\ \A k \in 1..Len(scop.stmts) : \A j \in 1..Len(scop.stmts[k].args) :
          LET arg == scop.stmts[k].args[j]
          IN  (arg.type = "access" /\ arg.acc.id = id)
              => \A pt \in arg.acc.pts : Len(pt.x) = n
    /\ \A k \in 1..Len(scop.implications) :
          scop.implications[k].extension.id = id
          => scop.implications[k].extension.n = n
    /\ \A k \in 1..Len(scop.arrays) :
          scop.arrays[k].extent.id = id => scop.arrays[k].extent.nin = n

Init ==
    /\ pool = [s \in Slots |-> NULL]
    /\ last = [op |-> "init", a |-> NULL, b |-> NULL, in |-> NULL,
               r |-> NULL, fr |-> <<>>]
    /\ steps = 0

\* The front end works on one scop at a time: the second scop is started
\* when the first one is there, and the first one is left alone until the
\* two are combined.
MayWork(s) ==
    /\ pool[s] # NULL
    /\ s = 1 => pool[2] = NULL

Done(s, op, in, res) ==
    /\ steps < MaxSteps
    /\ pool' = [pool EXCEPT ![s] = res.r]
    /\ last' = [op |-> op, a |-> pool[s], b |-> NULL, in |-> in,
                r |-> res.r, fr |-> res.fr]
    /\ steps' = steps + 1

FromStmt(s) ==
    /\ pool[s] = NULL
    /\ s = 2 => pool[1] # NULL
    /\ \E body \in Bodies, loc \in LocInputs :
          LET stmt == pet_stmt_from_pet_expr(loc, "", steps, body,
                                             NthFree(1), "")
          IN  Done(s, "from_stmt", [body |-> body],
                   pet_scop_from_pet_stmt(stmt, NthFree(2), ""))

Empty(s) ==
    /\ pool[s] = NULL
    /\ s = 2 => pool[1] # NULL
    /\ Done(s, "empty", NULL, [r |-> pet_scop_empty(NthFree(1), ""), fr |-> <<>>])

SetSkip(s) ==
    /\ MayWork(s)
    /\ \E type \in SkipTypes : \E skip \in SkipInputs[type] :
          /\ ~pet_scop_has_skip(pool[s], type)
          /\ Done(s, "set_skip", [type |-> type, skip |-> skip],
                  pet_scop_set_skip(pool[s], type,
                                    [skip EXCEPT !.oid = NthFree(1)]))

\* The front end stores a record type and a constraint on the values in
\* the fields of a scop that has none.
RecordTypes(s) ==
    /\ MayWork(s)
    /\ Len(pool[s].types) = 0
    /\ \E type \in {t \in TypeInputs : t.definition = "struct s { int a; }"},
          value \in CondInputs :
          Done(s, "record_types", [type |-> type, value |-> value],
               [r |-> [pool[s] EXCEPT
                         !.types = <<type>>,
                         !.context_value = isl_set_intersect(@, value)],
                fr |-> <<>>])

\* The skip of a scop is replaced by another one.
ReplaceSkip(s) ==
    /\ MayWork(s)
    /\ \E type \in SkipTypes : \E skip \in SkipInputs[type] :
          /\ pet_scop_has_skip(pool[s], type)
          /\ Done(s, "set_skip", [type |-> type, skip |-> skip],
                  pet_scop_set_skip(pool[s], type,
                                    [skip EXCEPT !.oid = NthFree(1)]))

ResetSkip(s) ==
    /\ MayWork(s)
    /\ \E type \in SkipTypes :
          /\ pet_scop_has_skip(pool[s], type)
          /\ Done(s, "reset_skip", [type |-> type],
                  pet_scop_reset_skip(pool[s], type))

Restrict(s) ==
    /\ MayWork(s)
    /\ \E cond \in CondInputs, fail \in {"", "context"} :
          Done(s, "restrict", [cond |-> cond, fail |-> fail],
               pet_scop_restrict(pool[s], cond,
                   [now |-> NthFree(1), later |-> NthFree(2)], fail))

Filter(s) ==
    /\ MayWork(s)
    /\ \E test \in TestInputs, satisfied \in Bool01,
          fail \in {"", "args_alloc"} :
          /\ UsesOnly(pool[s], test.id, test.nin)
          /\ Done(s, "filter",
                  [test |-> test, satisfied |-> satisfied, fail |-> fail],
                  pet_scop_filter(pool[s], test, satisfied,
                      [now |-> NthFree(1), later |-> NthFree(2)], fail))

\* A filter on the second test variable.
FilterSecond(s) ==
    /\ MayWork(s)
    /\ \E satisfied \in Bool01 :
          /\ UsesOnly(pool[s], SecondTest.id, SecondTest.nin)
          /\ Done(s, "filter",
                  [test |-> SecondTest, satisfied |-> satisfied, fail |-> ""],
                  pet_scop_filter(pool[s], SecondTest, satisfied,
                      [now |-> NthFree(1), later |-> NthFree(2)], ""))

Embed(s) ==
    /\ MayWork(s)
    /\ \A k \in 1..Len(pool[s].stmts) : pool[s].stmts[k].domain.nin < 1
    /\ \E loop \in LoopInputs, fail \in {"", "embed_stmt"} :
          Done(s, "embed", [loop |-> loop, fail |-> fail],
               pet_scop_embed(pool[s], loop.dom, loop.sched, loop.iv_map, fail))

\* The scop of a loop nest in a second loop.
EmbedOuter(s) ==
    /\ MayWork(s)
    /\ Len(pool[s].stmts) >= 1
    /\ \A k \in 1..Len(pool[s].stmts) : pool[s].stmts[k].domain.nin = 1
    /\ \E loop \in OuterLoopInputs :
          Done(s, "embed", [loop |-> loop, fail |-> ""],
               pet_scop_embed(pool[s], loop.dom, loop.sched, loop.iv_map, ""))

IntersectDomainPrefix(s) ==
    /\ MayWork(s)
    /\ Done(s, "intersect_domain_prefix", [domain |-> PrefixDom],
            pet_scop_intersect_domain_prefix(pool[s], PrefixDom))

Gist(s) ==
    /\ MayWork(s)
    /\ \E mode \in {"keep", "drop"} :
          Done(s, "gist", [mode |-> mode],
               [r |-> pet_scop_gist(pool[s], mode), fr |-> <<>>])

AddArray(s) ==
    /\ MayWork(s)
    /\ Len(pool[s].arrays) < 2
    /\ Done(s, "add_array", NULL,
            pet_scop_add_array(pool[s], ArrayA(NthFree(1)), ""))

AddBooleanArray(s) ==
    /\ MayWork(s)
    /\ Len(pool[s].arrays) < 2
    /\ \E test \in TestInputs :
          /\ UsesOnly(pool[s], test.id, test.nin)
          /\ Done(s, "add_boolean_array", [index |-> test],
                  pet_scop_add_boolean_array(pool[s], test, 4, NthFree(1), ""))

AddImplication(s) ==
    /\ MayWork(s)
    /\ Len(pool[s].implications) < 2
    /\ \A k \in 1..Len(pool[s].stmts) : pool[s].stmts[k].domain.nin = 0
    /\ UsesOnly(pool[s], ExtIdentity.id, ExtIdentity.n)
    /\ \E satisfied \in Bool01 :
          Done(s, "add_implication", [satisfied |-> satisfied],
               pet_scop_add_implication(pool[s], ExtIdentity, satisfied,
                                        NthFree(1), ""))

\* The orders in which the front end may have met the parameters.
ParamOrders == {<<"n", "i">>, <<"i", "n">>}

\* The parameters in "names", in the given order.
ListIn(order, names) == SelectSeq(order, LAMBDA x : x \in names)

\* The parameters the extension of an implication depends on.
ExtParams(ext) ==
    {name \in ParamNames :
        \E pt \in ext.pts, q \in PV :
           SameBut(pt.p, q, name) /\ [pt EXCEPT !.p = q] \notin ext.pts}

RECURSIVE ListedExpr(_, _)
ListedExpr(expr, order) ==
    LET e == [expr EXCEPT !.args = [k \in 1..Len(@) |-> ListedExpr(@[k], order)]]
    IN  IF expr.type = "access"
        THEN [e EXCEPT !.acc.params = ListIn(order, @)]
        ELSE e

\* The scop with the parameters of each of its sets and relations as a list:
\* those of the scop and its arrays in the order "o1", those of the
\* statements and implications in the order "o2".
ListedScop(scop, o1, o2) ==
    [scop EXCEPT
       !.context.params = ListIn(o1, @),
       !.context_value.params = ListIn(o1, @),
       !.arrays = [k \in 1..Len(@) |->
                     [@[k] EXCEPT
                        !.context.params = ListIn(o1, @),
                        !.extent.params = ListIn(o1, @),
                        !.value_bounds =
                            IF @ = NULL THEN NULL
                            ELSE [@ EXCEPT !.params = ListIn(o1, @)]]],
       !.stmts = [k \in 1..Len(@) |->
                    [@[k] EXCEPT
                       !.domain.params = ListIn(o2, @),
                       !.schedule.params = ListIn(o2, @),
                       !.args = [m \in 1..Len(@) |-> ListedExpr(@[m], o2)],
                       !.body = ListedExpr(@, o2)]],
       !.implications = [k \in 1..Len(@) |->
                           [oid |-> @[k].oid, satisfied |-> @[k].satisfied,
                            extension |->
                               [id |-> @[k].extension.id,
                                n |-> @[k].extension.n,
                                pts |-> @[k].extension.pts,
                                params |-> ListIn(o2, ExtParams(@[k].extension))]]]]

\* The parameters of a finished scop are aligned; nothing is built after it.
AlignParams(s) ==
    /\ steps < MaxSteps
    /\ MayWork(s)
    /\ \E o1 \in ParamOrders, o2 \in ParamOrders :
          LET scop == ListedScop(pool[s], o1, o2)
          IN  last' = [op |-> "align_params", a |-> scop, b |-> NULL,
                       in |-> [o1 |-> o1, o2 |-> o2],
                       r |-> pet_scop_align_params(scop), fr |-> <<>>]
    /\ steps' = MaxSteps
    /\ UNCHANGED pool

\* The scop of a statement with an indirect write, of a kill, or of a write
\* to B.
FromAccessStmt(s) ==
    /\ pool[s] = NULL
    /\ s = 2 => pool[1] # NULL
    /\ \E body \in AccessBodies, loc \in LocInputs :
          LET stmt == pet_stmt_from_pet_expr(loc, "", steps, body,
                                             NthFree(1), "")
          IN  Done(s, "from_stmt", [body |-> body],
                   pet_scop_from_pet_stmt(stmt, NthFree(2), ""))

\* The array A is declared with one element.
AddSmallArray(s) ==
    /\ MayWork(s)
    /\ Len(pool[s].arrays) < 2
    /\ Done(s, "add_array", NULL,
            pet_scop_add_array(pool[s], ArrayA1(NthFree(1)), ""))

\* The accesses of a finished scop are collected; nothing is built after it.
CollectAccesses(s) ==
    /\ steps < MaxSteps
    /\ MayWork(s)
    /\ last' = [op |-> "collect_accesses", a |-> pool[s], b |-> NULL,
                in |-> NULL,
                r |-> [may_reads |-> pet_scop_collect_may_reads(pool[s]),
                       may_writes |-> pet_scop_collect_may_writes(pool[s]),
                       must_writes |-> pet_scop_collect_must_writes(pool[s]),
                       must_kills |-> pet_scop_collect_must_kills(pool[s])],
                fr |-> <<>>]
    /\ steps' = MaxSteps
    /\ UNCHANGED pool

\* The front end extends the region of the scop.
UpdateStartEnd(s) ==
    /\ MayWork(s)
    /\ \E reg \in Regions :
          Done(s, "update_start_end", [start |-> reg[1], end |-> reg[2]],
               [r |-> pet_scop_update_start_end(pool[s], reg[1], reg[2]),
                fr |-> <<>>])

\* The source file is recorded on a scop that has none.
SetInputFile(s) ==
    /\ MayWork(s)
    /\ pool[s].input = NULL
    /\ Done(s, "set_input_file", [input |-> InputFile],
            [r |-> pet_scop_set_input_file(pool[s], InputFile), fr |-> <<>>])

\* The original code of a scop with a region is printed; nothing is built
\* after it.
PrintOriginal(s) ==
    /\ steps < MaxSteps
    /\ MayWork(s)
    /\ pool[s].loc # pet_loc_dummy
    /\ \E p \in Printers :
          last' = [op |-> "print_original", a |-> pool[s], b |-> NULL,
                   in |-> [p |-> p],
                   r |-> pet_scop_print_original(pool[s], p), fr |-> <<>>]
    /\ steps' = MaxSteps
    /\ UNCHANGED pool

\* The conditional expressions c ? t : e of the model, assigned to an array
\* element: the condition is affine or a test read from memory.
CondExprs ==
    {Op("cond", <<c, t, e>>) :
        c \in {AffineCond, AffineCondI, AccessT},
        t \in {AccessA, AccessB, AccessAi, AccessIv},
        e \in {AccessA, AccessB, AccessAi, AccessIv}}

\* The context of a statement lhs = c ? t : e is extracted, as
\* pet_scop_from_pet_stmt does from the universe; nothing is built after it.
ExtractContext ==
    /\ steps < MaxSteps
    /\ \E lhs \in {AccessA, AccessAi}, cond \in CondExprs :
          LET stmt == [body |-> Op("assign", <<lhs, cond>>), args |-> <<>>]
          IN  last' = [op |-> "extract_context", a |-> NULL, b |-> NULL,
                       in |-> [lhs |-> lhs, cond |-> cond],
                       r |-> stmt_extract_context(stmt, isl_set_universe_params),
                       fr |-> <<>>]
    /\ steps' = MaxSteps
    /\ UNCHANGED pool

\* The scop as it is extracted for a target on which the array elements have
\* the given size, with the given record type.
ForTarget(scop, type, size) ==
    IF scop = NULL THEN NULL
    ELSE [scop EXCEPT
            !.types = IF type = NULL THEN <<>> ELSE <<type>>,
            !.arrays = [k \in 1..Len(@) |-> [@[k] EXCEPT !.element_size = size]]]

\* A comparison of two scops, which may be the same one or missing; the
\* second one is extracted for another target.  The comparison is the last
\* step: nothing is built after it.
IsEqual ==
    /\ steps < MaxSteps
    /\ pool[1] # NULL
    /\ \E pair \in {<<pool[1], pool[1]>>, <<pool[1], pool[2]>>,
                     <<NULL, pool[1]>>, <<NULL, NULL>>},
          type1 \in {t \in TypeInputs : t.definition = "struct s { int a; }"},
          type2 \in TypeInputs, size \in ElementSizes :
          LET scop1 == ForTarget(pair[1], type1, 4)
              scop2 == ForTarget(pair[2], type2, size)
          IN  last' = [op |-> "is_equal", a |-> scop1, b |-> scop2,
                       in |-> [type1 |-> type1, type2 |-> type2,
                               size |-> size],
                       r |-> pet_scop_is_equal(scop1, scop2), fr |-> <<>>]
    /\ steps' = MaxSteps
    /\ UNCHANGED pool

AddFails == {"", "scop_alloc", "arrays_alloc", "implications_alloc", "skip_alloc"}

AddOids == [scop |-> NthFree(1), now |-> NthFree(2), later |-> NthFree(3),
            now2 |-> NthFree(4), later2 |-> NthFree(5)]

Combined(op, fail, res) ==
    /\ steps < MaxSteps
    /\ pool' = [pool EXCEPT ![1] = res.r, ![2] = NULL]
    /\ last' = [op |-> op, a |-> pool[1], b |-> pool[2],
                in |-> [fail |-> fail], r |-> res.r, fr |-> res.fr]
    /\ steps' = steps + 1

AddSeq ==
    /\ pool[1] # NULL /\ pool[2] # NULL
    /\ \E fail \in AddFails :
          Combined("add_seq", fail,
                   pet_scop_add_seq(pool[1], pool[2], AddOids, fail))

AddPar ==
    /\ pool[1] # NULL /\ pool[2] # NULL
    /\ \E fail \in AddFails :
          Combined("add_par", fail,
                   pet_scop_add_par(pool[1], pool[2], AddOids, fail))

Next ==
    \/ \E s \in Slots : FromStmt(s)
    \/ \E s \in Slots : Empty(s)
    \/ \E s \in Slots : SetSkip(s)
    \/ \E s \in Slots : ReplaceSkip(s)
    \/ \E s \in Slots : ResetSkip(s)
    \/ \E s \in Slots : Restrict(s)
    \/ \E s \in Slots : Filter(s)
    \/ \E s \in Slots : FilterSecond(s)
    \/ \E s \in Slots : Embed(s)
    \/ \E s \in Slots : EmbedOuter(s)
    \/ \E s \in Slots : IntersectDomainPrefix(s)
    \/ \E s \in Slots : Gist(s)
    \/ \E s \in Slots : AddArray(s)
    \/ \E s \in Slots : AddBooleanArray(s)
    \/ \E s \in Slots : AddImplication(s)
    \/ IsEqual
    \/ \E s \in Slots : AlignParams(s)
    \/ ExtractContext
    \/ \E s \in Slots : UpdateStartEnd(s)
    \/ \E s \in Slots : SetInputFile(s)
    \/ \E s \in Slots : PrintOriginal(s)
    \/ \E s \in Slots : FromAccessStmt(s)
    \/ \E s \in Slots : AddSmallArray(s)
    \/ \E s \in Slots : CollectAccesses(s)
    \/ \E s \in Slots : RecordTypes(s)
    \/ AddSeq
    \/ AddPar

Spec == Init /\ [][Next]_vars

\* Composition only: the scops of statements, with their skips, arrays and
\* loops, combined in sequence or in parallel.
NextCompose ==
    \/ \E s \in Slots : FromStmt(s)
    \/ \E s \in Slots : Empty(s)
    \/ \E s \in Slots : SetSkip(s)
    \/ \E s \in Slots : Embed(s)
    \/ \E s \in Slots : AddArray(s)
    \/ AddSeq
    \/ AddPar

SpecCompose == Init /\ [][NextCompose]_vars

\* Filtering only.
NextFilter ==
    \/ \E s \in Slots : FromStmt(s)
    \/ \E s \in Slots : SetSkip(s)
    \/ \E s \in Slots : Embed(s)
    \/ \E s \in Slots : AddImplication(s)
    \/ \E s \in Slots : Filter(s)

SpecFilter == Init /\ [][NextFilter]_vars

\* The operations that change the domains of the statements.
NextDomains ==
    \/ \E s \in Slots : FromStmt(s)
    \/ \E s \in Slots : Restrict(s)
    \/ \E s \in Slots : Filter(s)
    \/ \E s \in Slots : Embed(s)
    \/ \E s \in Slots : IntersectDomainPrefix(s)
    \/ \E s \in Slots : Gist(s)
    \/ AddSeq
    \/ AddPar

SpecDomains == Init /\ [][NextDomains]_vars

\* The operations that take ownership of their operands.
NextOwnership ==
    \/ \E s \in Slots : FromStmt(s)
    \/ \E s \in Slots : Empty(s)
    \/ \E s \in Slots : SetSkip(s)
    \/ \E s \in Slots : AddArray(s)
    \/ \E s \in Slots : AddImplication(s)
    \/ \E s \in Slots : Restrict(s)
    \/ \E s \in Slots : Filter(s)
    \/ \E s \in Slots : Embed(s)
    \/ AddSeq
    \/ AddPar

SpecOwnership == Init /\ [][NextOwnership]_vars

(***************************************************************************)
(* Properties of composition.                                              *)
(***************************************************************************)
IsAdd == last.op \in {"add_seq", "add_par"}

\* pet_scop_add has received the two operands as they were: in parallel
\* composition always, in sequence when the first one has no skip[now].
PlainAdd ==
    \/ last.op = "add_par"
    \/ last.op = "add_seq" /\ ~pet_scop_has_skip(last.a, "now")

Count(seq, x) == Cardinality({k \in 1..Len(seq) : seq[k] = x})

\* C1: a successful add_seq or add_par of two scops that both have at
\* least one statement has |statements(A)| + |statements(B)| statements and
\* |arrays(A)| + |arrays(B)| arrays, A's first in their order, then B's.
C1_AddConcatenates ==
    (IsAdd /\ last.r # NULL
       /\ Len(last.a.stmts) >= 1 /\ Len(last.b.stmts) >= 1)
    => /\ Len(last.r.stmts) = Len(last.a.stmts) + Len(last.b.stmts)
       /\ Len(last.r.arrays) = Len(last.a.arrays) + Len(last.b.arrays)
       /\ SeqOids(last.r.stmts) = SeqOids(last.a.stmts) \o SeqOids(last.b.stmts)
       /\ last.r.arrays = last.a.arrays \o last.b.arrays

C1_Witness ==
    /\ IsAdd /\ last.r # NULL
    /\ Len(last.a.stmts) >= 1 /\ Len(last.b.stmts) >= 1
    /\ Len(last.a.arrays) >= 1 /\ Len(last.b.arrays) >= 1
    /\ Len(last.r.stmts) = 2 /\ Len(last.r.arrays) = 2

\* C2: when exactly one operand of pet_scop_add has zero statements, the
\* result is the other operand with its statements, arrays, implications,
\* context and location unchanged; only the skips may differ.
C2_AddIdentity ==
    (PlainAdd /\ last.r # NULL
       /\ (Len(last.a.stmts) = 0) # (Len(last.b.stmts) = 0))
    => LET other == IF Len(last.a.stmts) = 0 THEN last.b ELSE last.a
       IN  /\ last.r.oid = other.oid
           /\ last.r.stmts = other.stmts
           /\ last.r.arrays = other.arrays
           /\ last.r.implications = other.implications
           /\ last.r.context = other.context
           /\ last.r.loc = other.loc
           /\ \A type \in SkipTypes :
                 (last.a.skip[type] = NULL /\ last.b.skip[type] = NULL)
                 => last.r.skip[type] = NULL

C2_Witness ==
    /\ PlainAdd /\ last.r # NULL
    /\ Len(last.a.stmts) = 0 /\ Len(last.b.stmts) >= 1
    /\ Len(last.b.arrays) >= 1
    /\ last.a.skip.now # NULL
    /\ last.r.skip # last.b.skip

\* C3 as stated: per skip type, neither operand has the skip: the result
\* has none; exactly one has it: the result has that one unchanged; both
\* affine: the non-zero region of the result's skip is the union of the
\* non-zero regions of the two.
C3_Original ==
    (PlainAdd /\ last.r # NULL)
    => \A type \in SkipTypes :
          LET s1 == last.a.skip[type]
              s2 == last.b.skip[type]
              sr == last.r.skip[type]
          IN  /\ (s1 = NULL /\ s2 = NULL) => sr = NULL
              /\ (s1 # NULL /\ s2 = NULL) => sr = s1
              /\ (s1 = NULL /\ s2 # NULL) => sr = s2
              /\ (s1 # NULL /\ s2 # NULL /\ multi_pw_aff_is_affine(s1)
                    /\ multi_pw_aff_is_affine(s2))
                 => /\ sr # NULL
                    /\ isl_pw_aff_non_zero_set(isl_multi_pw_aff_get_pw_aff(sr))
                       = isl_pw_aff_non_zero_set(isl_multi_pw_aff_get_pw_aff(s1))
                         \cup
                         isl_pw_aff_non_zero_set(isl_multi_pw_aff_get_pw_aff(s2))

\* C3: per skip type, neither operand has the skip: the result has none;
\* exactly one has it: the result has that one unchanged; both affine: the
\* result's skip is affine, defined on the shared definition domain of the
\* two, and its non-zero region is the union of the two non-zero regions
\* within that shared domain.
C3_SkipCombination ==
    (PlainAdd /\ last.r # NULL)
    => \A type \in SkipTypes :
          LET s1 == last.a.skip[type]
              s2 == last.b.skip[type]
              sr == last.r.skip[type]
          IN  /\ (s1 = NULL /\ s2 = NULL) => sr = NULL
              /\ (s1 # NULL /\ s2 = NULL) => sr = s1
              /\ (s1 = NULL /\ s2 # NULL) => sr = s2
              /\ (s1 # NULL /\ s2 # NULL /\ multi_pw_aff_is_affine(s1)
                    /\ multi_pw_aff_is_affine(s2))
                 => LET p1 == isl_multi_pw_aff_get_pw_aff(s1)
                        p2 == isl_multi_pw_aff_get_pw_aff(s2)
                        shared == isl_pw_aff_domain(p1) \cap isl_pw_aff_domain(p2)
                    IN  /\ sr # NULL
                        /\ multi_pw_aff_is_affine(sr)
                        /\ isl_pw_aff_domain(isl_multi_pw_aff_get_pw_aff(sr))
                           = shared
                        /\ isl_pw_aff_non_zero_set(isl_multi_pw_aff_get_pw_aff(sr))
                           = (isl_pw_aff_non_zero_set(p1) \cup
                              isl_pw_aff_non_zero_set(p2)) \cap shared

C3_Witness ==
    /\ PlainAdd /\ last.r # NULL
    /\ last.a.skip.now # NULL /\ last.b.skip.now # NULL
    /\ multi_pw_aff_is_affine(last.a.skip.now)
    /\ multi_pw_aff_is_affine(last.b.skip.now)
    /\ last.a.skip.later = NULL /\ last.b.skip.later = NULL
    /\ isl_pw_aff_domain(isl_multi_pw_aff_get_pw_aff(last.r.skip.now)) # PV
    /\ isl_pw_aff_non_zero_set(isl_multi_pw_aff_get_pw_aff(last.r.skip.now))
       # {}

\* Both operands carry a skip of the type that is not affine.
BothNonAffine(type) ==
    /\ last.a.skip[type] # NULL /\ last.b.skip[type] # NULL
    /\ ~multi_pw_aff_is_affine(last.a.skip[type])
    /\ ~multi_pw_aff_is_affine(last.b.skip[type])

\* Every object of the operands has been released exactly once, and nothing
\* else twice.
AllReleasedOnce ==
    /\ \A x \in Owned(last.a) \cup Owned(last.b) : Count(last.fr, x) = 1
    /\ \A k \in 1..Len(last.fr) :
          last.fr[k] # TmpOid => Count(last.fr, last.fr[k]) = 1

\* C4: when both operands of an add carry a non-affine skip of some type,
\* the add returns null, no scop results, and A, B and the partially built
\* result are all released.
C4_NonAffineSkipsFail ==
    (IsAdd /\ \E type \in SkipTypes : BothNonAffine(type))
    => /\ last.r = NULL
       /\ pool[1] = NULL /\ pool[2] = NULL
       /\ AllReleasedOnce

\* Both operands have statements, so that the result has been allocated, and
\* it has been released together with the operands.
C4_Witness ==
    /\ last.op = "add_par" /\ last.in.fail = ""
    /\ BothNonAffine("now")
    /\ Len(last.a.stmts) >= 1 /\ Len(last.b.stmts) >= 1
    /\ last.r = NULL
    /\ Len(last.fr) > Cardinality(Owned(last.a) \cup Owned(last.b))

\* The parameter values where the skip is zero.
ZeroParams(skip) == isl_pw_aff_zero_set(isl_multi_pw_aff_get_pw_aff(skip))

\* The statement of the result that was statement "stmt" of an operand.
ResultStmt(stmt) ==
    CHOOSE t \in {last.r.stmts[k] : k \in 1..Len(last.r.stmts)} :
        t.oid = stmt.oid

InResult(stmt) ==
    \E k \in 1..Len(last.r.stmts) : last.r.stmts[k].oid = stmt.oid

\* C5: when A has an affine skip[now], a successful add_seq(A, B) leaves of
\* every statement of B the instances for the parameter values where the
\* skip is zero and no other: none remains where the skip holds; the
\* statements of A are as they were.
C5_SeqRestrictsSecond ==
    (last.op = "add_seq" /\ last.r # NULL
       /\ last.a.skip.now # NULL /\ multi_pw_aff_is_affine(last.a.skip.now))
    => /\ \A k \in 1..Len(last.a.stmts) :
             /\ InResult(last.a.stmts[k])
             /\ ResultStmt(last.a.stmts[k]) = last.a.stmts[k]
       /\ \A k \in 1..Len(last.b.stmts) :
             LET old == last.b.stmts[k]
                 kept == {pt \in old.domain.pts :
                             pt.p \in ZeroParams(last.a.skip.now)}
             IN  IF InResult(old)
                 THEN ResultStmt(old).domain.pts = kept
                 ELSE kept = {}
       /\ \A k \in 1..Len(last.r.stmts) :
             \A pt \in last.r.stmts[k].domain.pts :
                 (\E j \in 1..Len(last.b.stmts) :
                     last.b.stmts[j].oid = last.r.stmts[k].oid)
                 => pt.p \notin isl_pw_aff_non_zero_set(
                                  isl_multi_pw_aff_get_pw_aff(last.a.skip.now))

\* Instances of a statement of B have been removed, others remain.
C5_Witness ==
    /\ last.op = "add_seq" /\ last.r # NULL
    /\ last.a.skip.now # NULL /\ multi_pw_aff_is_affine(last.a.skip.now)
    /\ Len(last.a.stmts) >= 1
    /\ \E k \in 1..Len(last.b.stmts) :
          /\ InResult(last.b.stmts[k])
          /\ ResultStmt(last.b.stmts[k]).domain.pts # {}
          /\ ResultStmt(last.b.stmts[k]).domain.pts # last.b.stmts[k].domain.pts
          /\ last.b.stmts[k].domain.nin = 1

\* C6: whatever the skips of A, every statement of B is in a successful
\* add_par(A, B) with the domain, the schedule and the arguments it had.
C6_ParKeepsSecond ==
    (last.op = "add_par" /\ last.r # NULL)
    => \A k \in 1..Len(last.b.stmts) :
          /\ InResult(last.b.stmts[k])
          /\ ResultStmt(last.b.stmts[k]).domain = last.b.stmts[k].domain
          /\ ResultStmt(last.b.stmts[k]).schedule = last.b.stmts[k].schedule
          /\ ResultStmt(last.b.stmts[k]).args = last.b.stmts[k].args

C6_Witness ==
    /\ last.op = "add_par" /\ last.r # NULL
    /\ last.a.skip.now # NULL /\ multi_pw_aff_is_affine(last.a.skip.now)
    /\ ZeroParams(last.a.skip.now) # PV
    /\ Len(last.a.stmts) >= 1 /\ Len(last.b.stmts) >= 1
    /\ last.b.stmts[1].domain.nin = 1

\* C10: a successful pet_scop_embed leaves the scop without skip[now] and
\* without skip[later], whatever it carried; an embedded scop that is then
\* added as second operand leaves the skips of the result those of the
\* first operand.
C10_EmbedDiscardsSkips ==
    /\ (last.op = "embed" /\ last.r # NULL)
       => /\ last.r.skip.now = NULL /\ last.r.skip.later = NULL
    /\ (IsAdd /\ last.r # NULL
          /\ Len(last.b.stmts) >= 1
          /\ \A k \in 1..Len(last.b.stmts) : last.b.stmts[k].domain.nin >= 1
          /\ last.b.skip.now = NULL /\ last.b.skip.later = NULL)
       => last.r.skip = last.a.skip

C10_Witness ==
    /\ last.op = "embed" /\ last.r # NULL
    /\ last.a.skip.now # NULL /\ last.a.skip.later # NULL
    /\ Len(last.r.stmts) >= 1

(***************************************************************************)
(* Properties of filtering.                                                *)
(***************************************************************************)
\* The last filter, applied once more to its own result.
FilterAgain ==
    pet_scop_filter(last.r, last.in.test, last.in.satisfied,
                    [now |-> NthFree(1), later |-> NthFree(2)], "")

\* C7: for every scop S, test T and value v, filter(filter(S, T, v), T, v)
\* has the statements of filter(S, T, v), with the same argument lists and
\* the same domains, also when S has no implications.
C7_FilterTwice ==
    (last.op = "filter" /\ last.in.fail = "" /\ last.r # NULL)
    => /\ FilterAgain.r # NULL
       /\ FilterAgain.r.stmts = last.r.stmts

(***************************************************************************)
(* Properties of the domains of the statements.                            *)
(***************************************************************************)
StmtsOf(scop) ==
    IF scop = NULL THEN {} ELSE {scop.stmts[k] : k \in 1..Len(scop.stmts)}

\* C8: in every scop obtained from scops of single statements by add_seq,
\* add_par, embed, filter, restrict, intersect_domain_prefix and gist, a
\* statement with n_arg > 0 has a wrapped relation as domain, with n_arg
\* range dimensions, and a statement with n_arg = 0 has a plain domain.
C8_ArgumentsMatchDomain ==
    \A s \in Slots : \A stmt \in StmtsOf(pool[s]) :
        /\ Len(stmt.args) > 0
           => /\ isl_set_is_wrapping(stmt.domain)
              /\ isl_set_unwrap(stmt.domain).nout = Len(stmt.args)
              /\ \A pt \in stmt.domain.pts : Len(pt.a) = Len(stmt.args)
        /\ Len(stmt.args) = 0
           => /\ ~isl_set_is_wrapping(stmt.domain)
              /\ \A pt \in stmt.domain.pts : pt.a = <<>>

\* A filtered statement has been embedded and combined with a statement
\* without arguments.
C8_Witness ==
    /\ IsAdd /\ last.r # NULL
    /\ \E stmt \in StmtsOf(pool[1]) :
          /\ Len(stmt.args) = 1 /\ stmt.domain.nin = 1
          /\ stmt.domain.pts # {}
    /\ \E stmt \in StmtsOf(pool[1]) : Len(stmt.args) = 0

(***************************************************************************)
(* Ownership.                                                              *)
(***************************************************************************)
\* The addresses of the objects of a scop, one entry per reference.
OidsOf(scop) ==
    IF scop = NULL THEN <<>>
    ELSE <<scop.oid>> \o SeqOids(scop.stmts) \o SeqOids(scop.arrays) \o
         SeqOids(scop.implications) \o SkipOids(scop)

Consumes == {"add_seq", "add_par", "embed", "filter", "restrict"}

NextEmbed ==
    \/ \E s \in Slots : FromStmt(s)
    \/ \E s \in Slots : AddArray(s)
    \/ \E s \in Slots : AddBooleanArray(s)
    \/ \E s \in Slots : AddImplication(s)
    \/ \E s \in Slots : Filter(s)
    \/ \E s \in Slots : Embed(s)
    \/ \E s \in Slots : EmbedOuter(s)

SpecEmbed == Init /\ [][NextEmbed]_vars

Embedded == last.op = "embed" /\ last.r # NULL

\* C11: a statement without arguments whose domain and schedule do not
\* reference the real iterator is, after embedding in a loop with domain D
\* and schedule s, a statement of the same name; (j, i) is in its domain
\* exactly if j is in D and i was in the domain; its schedule relates
\* (j, i) to [s(j), t] exactly if the old one related i to t.
C11_EmbedStatement ==
    Embedded
    => \A k \in 1..Len(last.a.stmts) :
          LET old == last.a.stmts[k]
              new == last.r.stmts[k]
              D == last.in.loop.dom
              s == last.in.loop.sched
          IN  (Len(old.args) = 0 /\ ~HasParam(old.domain, VarId)
                 /\ VarId \notin old.schedule.params)
              => /\ new.oid = old.oid
                 /\ new.domain.id = old.domain.id
                 /\ new.schedule.id = old.schedule.id
                 /\ new.domain.nin = old.domain.nin + 1
                 /\ ~isl_set_is_wrapping(new.domain)
                 /\ \A q \in PV, j \in Val, it \in Tuples(Val, old.domain.nin) :
                       [p |-> q, it |-> <<j>> \o it, a |-> <<>>]
                           \in new.domain.pts
                       <=> /\ [p |-> q, it |-> <<j>>, a |-> <<>>] \in D.pts
                           /\ [p |-> q, it |-> it, a |-> <<>>]
                                  \in old.domain.pts
                 /\ \A pt \in new.domain.pts : Len(pt.it) = old.domain.nin + 1
                 /\ \A pt \in new.schedule.pts :
                       /\ Len(pt.it) = old.schedule.nin + 1
                       /\ pt.x[1] = Aff(s, pt.it[1])
                       /\ [p |-> pt.p, it |-> Tail(pt.it), x |-> Tail(pt.x)]
                              \in old.schedule.pts
                 /\ \A pt \in old.schedule.pts : \A j \in Val :
                       [p |-> pt.p, it |-> <<j>> \o pt.it,
                        x |-> <<Aff(s, j)>> \o pt.x] \in new.schedule.pts

\* A statement with a one-dimensional domain that depends on n has got a
\* second dimension, in front.
C11_Witness ==
    /\ Embedded
    /\ Len(last.a.stmts) = 1
    /\ Len(last.a.stmts[1].args) = 0
    /\ last.a.stmts[1].domain.nin = 1
    /\ \E pt \in last.r.stmts[1].domain.pts : pt.it = <<0, 1>>
    /\ \A pt \in last.r.stmts[1].domain.pts : pt.it # <<1, 0>>

\* C12: embedding keeps the numbers of arrays, statements and implications;
\* the extent of a virtual array (a tuple id without user pointer, not
\* wrapping) becomes the flat product of the loop domain with the old
\* extent, under the same id; every other array is unchanged.
C12_EmbedGrowsVirtualArrays ==
    Embedded
    => /\ Len(last.r.arrays) = Len(last.a.arrays)
       /\ Len(last.r.stmts) = Len(last.a.stmts)
       /\ Len(last.r.implications) = Len(last.a.implications)
       /\ \A k \in 1..Len(last.a.arrays) :
             LET old == last.a.arrays[k]
                 new == last.r.arrays[k]
                 D == last.in.loop.dom
             IN  IF old.extent.id # "" /\ old.extent.virtual
                    /\ ~old.extent.wrapped
                 THEN /\ new.extent.id = old.extent.id
                      /\ new.extent.virtual
                      /\ new.extent.nin = old.extent.nin + 1
                      /\ \A pt \in new.extent.pts :
                            Len(pt.it) = old.extent.nin + 1
                      /\ \A q \in PV, j \in Val,
                            it \in Tuples(Val, old.extent.nin) :
                            [p |-> q, it |-> <<j>> \o it, a |-> <<>>]
                                \in new.extent.pts
                            <=> /\ [p |-> q, it |-> <<j>>, a |-> <<>>]
                                       \in D.pts
                                /\ [p |-> q, it |-> it, a |-> <<>>]
                                       \in old.extent.pts
                      /\ [new EXCEPT !.extent = old.extent] = old
                 ELSE new = old

\* A scop with a named and a virtual array has been embedded in a loop whose
\* domain leaves out an iteration for some value of n.
C12_Witness ==
    /\ Embedded
    /\ \E k \in 1..Len(last.a.arrays) :
          /\ last.a.arrays[k].extent.virtual
          /\ last.r.arrays[k].extent.pts # last.a.arrays[k].extent.pts
          /\ \E q \in PV :
                [p |-> q, it |-> <<1>>, a |-> <<>>]
                    \notin last.r.arrays[k].extent.pts
    /\ \E k \in 1..Len(last.a.arrays) :
          /\ ~last.a.arrays[k].extent.virtual
          /\ last.r.arrays[k] = last.a.arrays[k]

\* C13: embedding leaves a context that does not reference the real iterator
\* as it is; otherwise the new context holds exactly the parameter values
\* for which the old context holds at every point of the loop domain, with
\* the real iterator set to iv_map of that point, and the real iterator is
\* no longer a parameter of it.
C13_EmbedContext ==
    Embedded
    => LET old == last.a.context
           new == last.r.context
           D == last.in.loop.dom
           iv == last.in.loop.iv_map
       IN  IF ~HasParam(old, VarId) THEN new = old
           ELSE /\ ~HasParam(new, VarId)
                /\ \A q \in PV :
                      q \in PVof(new)
                      <=> \A j \in Val :
                             [p |-> q, it |-> <<j>>, a |-> <<>>] \in D.pts
                             => [q EXCEPT ![VarId] = Aff(iv, j)] \in PVof(old)

\* A context on the real iterator has become a proper condition on n.
C13_Witness ==
    /\ Embedded
    /\ HasParam(last.a.context, VarId)
    /\ PVof(last.r.context) # {}
    /\ PVof(last.r.context) # PV
    /\ last.in.loop.iv_map = AffReverse

(***************************************************************************)
(* Filtering a scop that has skip conditions.                              *)
(***************************************************************************)
Filtered == last.op = "filter"

\* The skip of the given type of the filtered scop is affine and non-zero
\* for every value of the parameters.
UniversalSkip(type) ==
    /\ last.a.skip[type] # NULL
    /\ last.a.skip[type].id = ""
    /\ last.a.skip[type].dom = PV
    /\ last.a.skip[type].nz = PV

\* The skip of the given type can be filtered.
Filterable(type) ==
    last.a.skip[type] = NULL \/ (last.in.satisfied = 1 /\ UniversalSkip(type))

\* C14: a filter on a scop with a skip of some type succeeds only if
\* satisfied is true and the skip is affine and universal; the skip is then
\* the test.  With any other skip the filter returns null and releases the
\* scop.  A skip type that is absent stays absent.
C14_FilterSkip ==
    Filtered
    => /\ \A type \in SkipTypes :
             (last.r # NULL /\ last.a.skip[type] = NULL)
             => last.r.skip[type] = NULL
       /\ \A type \in SkipTypes :
             (last.r # NULL /\ last.a.skip[type] # NULL)
             => /\ last.in.satisfied = 1
                /\ UniversalSkip(type)
                /\ [last.r.skip[type] EXCEPT !.oid = last.in.test.oid]
                       = last.in.test
       /\ (\E type \in SkipTypes : ~Filterable(type))
             => /\ last.r = NULL
                /\ \A x \in Owned(last.a) : Count(last.fr, x) = 1
       /\ ((\A type \in SkipTypes : Filterable(type)) /\ last.in.fail = "")
             => last.r # NULL

\* A universal skip has been replaced by the test.
C14_Witness ==
    /\ Filtered
    /\ UniversalSkip("now")
    /\ last.in.satisfied = 1
    /\ last.r # NULL
    /\ last.r.skip["now"] # NULL
    /\ last.r.skip["now"].id = last.in.test.id
    /\ Len(last.r.stmts) >= 1

\* A filter on the value 0 of a scop with a universal skip has failed.
C14_WitnessFail ==
    /\ Filtered
    /\ UniversalSkip("now")
    /\ last.in.satisfied = 0
    /\ last.r = NULL

(***************************************************************************)
(* The context of a sum of scops.                                          *)
(***************************************************************************)
\* C15: the context of the add of two scops with at least one statement
\* each is the intersection of the contexts of the two, each without its
\* unnamed parameters.
C15_AddContext ==
    (PlainAdd /\ last.r # NULL
       /\ Len(last.a.stmts) >= 1 /\ Len(last.b.stmts) >= 1)
    => LET c1 == pet_nested_remove_from_set(last.a.context)
           c2 == pet_nested_remove_from_set(last.b.context)
       IN  /\ PVof(last.r.context) = PVof(c1) \cap PVof(c2)
           /\ last.r.context.params = c1.params \cup c2.params
           /\ last.r.context.nin = 0

\* Two scops with different contexts, neither of them universal, have been
\* added.
C15_Witness ==
    /\ PlainAdd /\ last.r # NULL
    /\ Len(last.a.stmts) >= 1 /\ Len(last.b.stmts) >= 1
    /\ PVof(last.a.context) # PV /\ PVof(last.b.context) # PV
    /\ PVof(last.a.context) # PVof(last.b.context)
    /\ PVof(last.r.context) # PVof(last.b.context)

(***************************************************************************)
(* Restriction to a condition on the parameters, applied twice.            *)
(***************************************************************************)
\* The scops of statements in loops and in sequence, with skip conditions
\* and restricted to conditions on the parameters.
NextRestrict ==
    \/ \E s \in Slots : FromStmt(s)
    \/ \E s \in Slots : SetSkip(s)
    \/ \E s \in Slots : Restrict(s)
    \/ \E s \in Slots : Embed(s)
    \/ AddSeq

SpecRestrict == Init /\ [][NextRestrict]_vars

\* Every condition on the parameters n and i.
AllConds ==
    {[params |-> ParamNames, id |-> "", virtual |-> FALSE, wrapped |-> FALSE,
      nin |-> 0, nout |-> 0,
      pts |-> {pt \in AllPts(0, 0) : pt.p \in P}] : P \in SUBSET PV}

RestrictOnce(scop, cond) ==
    pet_scop_restrict(scop, cond, [now |-> NthFree(1), later |-> NthFree(2)],
                      "").r

\* The skip condition of the given type: absent, or its tuple id, domain of
\* definition and non-zero set.
SkipCondition(scop, type) ==
    IF scop.skip[type] = NULL THEN NULL
    ELSE [id |-> scop.skip[type].id, dom |-> scop.skip[type].dom,
          nz |-> scop.skip[type].nz]

\* The two scops have the same context, statement domains and skips.
SameRestricted(s, t) ==
    /\ s # NULL /\ t # NULL
    /\ isl_set_is_equal(s.context, t.context)
    /\ Len(s.stmts) = Len(t.stmts)
    /\ \A k \in 1..Len(s.stmts) :
          isl_set_is_equal(s.stmts[k].domain, t.stmts[k].domain)
    /\ \A type \in SkipTypes : SkipCondition(s, type) = SkipCondition(t, type)

AffineSkipsOnly(scop) ==
    \A type \in SkipTypes :
       scop.skip[type] = NULL \/ multi_pw_aff_is_affine(scop.skip[type])

\* C16: for a scop S without skips or with affine skips and a condition c on
\* the parameters, restrict(restrict(S, c), c) has the context, the
\* statement domains and the skip conditions of restrict(S, c): for the
\* restriction that took place, and for every other condition on S.
C16_RestrictIdempotent ==
    (last.op = "restrict" /\ AffineSkipsOnly(last.a))
    => /\ (last.in.fail = ""
             => SameRestricted(RestrictOnce(last.r, last.in.cond), last.r))
       /\ \A c \in AllConds :
             SameRestricted(RestrictOnce(RestrictOnce(last.a, c), c),
                            RestrictOnce(last.a, c))

\* A scop with an affine skip and a context that is not universal has been
\* restricted, which changed its skip, its context and a domain.
C16_Witness ==
    /\ last.op = "restrict" /\ last.r # NULL
    /\ last.a.skip["now"] # NULL
    /\ multi_pw_aff_is_affine(last.a.skip["now"])
    /\ SkipCondition(last.r, "now") # SkipCondition(last.a, "now")
    /\ PVof(last.r.context) # PVof(last.a.context)
    /\ Len(last.r.stmts) >= 1
    /\ last.r.stmts[1].domain.pts # last.a.stmts[1].domain.pts

(***************************************************************************)
(* Properties of the equality predicates.                                  *)
(***************************************************************************)
\* Scops with their arrays, statements and implications, compared.
NextEqual ==
    \/ \E s \in Slots : FromStmt(s)
    \/ \E s \in Slots : Empty(s)
    \/ \E s \in Slots : AddArray(s)
    \/ \E s \in Slots : AddBooleanArray(s)
    \/ \E s \in Slots : AddImplication(s)
    \/ IsEqual

SpecEqual == Init /\ [][NextEqual]_vars

Compared == last.op = "is_equal"

\* The members of a list of a scop, and a missing one.
Members(scop, field) ==
    IF scop = NULL THEN {NULL}
    ELSE {scop[field][k] : k \in 1..Len(scop[field])} \cup {NULL}

Compared_arrays == Members(last.a, "arrays") \cup Members(last.b, "arrays")
Compared_stmts == Members(last.a, "stmts") \cup Members(last.b, "stmts")
Compared_implications ==
    Members(last.a, "implications") \cup Members(last.b, "implications")
Compared_types == {last.in.type1, last.in.type2, NULL}

\* The five predicates give the same result for (x, y) and for (y, x).
Symmetric ==
    /\ pet_scop_is_equal(last.a, last.b) = pet_scop_is_equal(last.b, last.a)
    /\ \A x \in Compared_arrays, y \in Compared_arrays :
          pet_array_is_equal(x, y) = pet_array_is_equal(y, x)
    /\ \A x \in Compared_stmts, y \in Compared_stmts :
          pet_stmt_is_equal(x, y) = pet_stmt_is_equal(y, x)
    /\ \A x \in Compared_implications, y \in Compared_implications :
          pet_implication_is_equal(x, y) = pet_implication_is_equal(y, x)
    /\ \A x \in TypeInputs \cup {NULL}, y \in TypeInputs \cup {NULL} :
          pet_type_is_equal(x, y) = pet_type_is_equal(y, x)

\* The results do not depend on the element size of an array or on the
\* definition of a type.
Insensitive ==
    /\ \A x \in Compared_arrays \ {NULL}, y \in Compared_arrays,
          size \in ElementSizes :
          pet_array_is_equal([x EXCEPT !.element_size = size], y)
              = pet_array_is_equal(x, y)
    /\ \A x \in TypeInputs, y \in TypeInputs \cup {NULL}, z \in TypeInputs :
          pet_type_is_equal([x EXCEPT !.definition = z.definition], y)
              = pet_type_is_equal(x, y)
    /\ \A type \in TypeInputs, size \in ElementSizes :
          last.a # NULL
          => pet_scop_is_equal(
                 ForTarget(last.a, [last.in.type1 EXCEPT
                                      !.definition = type.definition], size),
                 last.b)
             = pet_scop_is_equal(last.a, last.b)

\* The five predicates hold for (x, x), for every x in the given sets.
Reflexive(scops, arrays, stmts, implications, types) ==
    /\ \A x \in scops : pet_scop_is_equal(x, x)
    /\ \A x \in arrays : pet_array_is_equal(x, x)
    /\ \A x \in stmts : pet_stmt_is_equal(x, x)
    /\ \A x \in implications : pet_implication_is_equal(x, x)
    /\ \A x \in types : pet_type_is_equal(x, x)

NextSeqFilter ==
    \/ \E s \in Slots : FromStmt(s)
    \/ \E s \in Slots : SetSkip(s)
    \/ \E s \in Slots : AddImplication(s)
    \/ \E s \in Slots : Filter(s)
    \/ AddSeq

SpecSeqFilter == Init /\ [][NextSeqFilter]_vars

\* A sequence A; B where A has a non-affine skip[now] and B has no skip.
SeqAfterNonAffineSkip ==
    /\ last.op = "add_seq" /\ last.r # NULL
    /\ last.a.skip["now"] # NULL
    /\ ~multi_pw_aff_is_affine(last.a.skip["now"])
    /\ last.b.skip["now"] = NULL /\ last.b.skip["later"] = NULL

\* The statement "new" is "old" with one more argument, in front: a read of
\* the skip variable, whose value has to be 0.
FilteredOnSkip(old, new) ==
    /\ Len(new.args) = Len(old.args) + 1
    /\ new.args[1] = pet_expr_from_index(last.a.skip["now"], old.domain.nin)
    /\ SubSeq(new.args, 2, Len(new.args)) = old.args
    /\ new.domain.nout = old.domain.nout + 1
    /\ new.domain.pts = {[p |-> pt.p, it |-> pt.it, a |-> <<0>> \o pt.a] :
                            pt \in old.domain.pts}

\* C18: in a sequence A; B where A has a non-affine skip[now] and B has no
\* skip, every statement of B gets one more argument that reads the skip
\* variable and has to be 0, except the statements where an argument they
\* already have implies that filter, taking the implications of B into
\* account: those are unchanged.
C18_SeqFiltersSecond ==
    SeqAfterNonAffineSkip
    => \A k \in 1..Len(last.b.stmts) :
          LET old == last.b.stmts[k]
          IN  /\ InResult(old)
              /\ IF filter_implied_full(last.b, old, last.a.skip["now"], 0)
                 THEN ResultStmt(old) = old
                 ELSE FilteredOnSkip(old, ResultStmt(old))

\* The same with the test for implied filters as the code makes it: a scop
\* without implications has no implied filter.
C18_AsImplemented ==
    SeqAfterNonAffineSkip
    => \A k \in 1..Len(last.b.stmts) :
          LET old == last.b.stmts[k]
          IN  /\ InResult(old)
              /\ IF filter_implied(last.b, old, last.a.skip["now"], 0)
                 THEN ResultStmt(old) = old
                 ELSE FilteredOnSkip(old, ResultStmt(old))

\* A statement that was filtered on the skip variable being 0, in a scop
\* without implications, has got the same filter a second time.
C18_Divergence ==
    /\ SeqAfterNonAffineSkip
    /\ Len(last.b.implications) = 0
    /\ \E k \in 1..Len(last.b.stmts) :
          /\ filter_implied_full(last.b, last.b.stmts[k],
                                 last.a.skip["now"], 0)
          /\ Len(ResultStmt(last.b.stmts[k]).args) = 2
          /\ ResultStmt(last.b.stmts[k]).args[1]
                 = ResultStmt(last.b.stmts[k]).args[2]

(***************************************************************************)
(* The implications of a sum of scops.                                     *)
(***************************************************************************)
\* Scops of statements with implications, in loops, combined.
NextImplications ==
    \/ \E s \in Slots : FromStmt(s)
    \/ \E s \in Slots : AddImplication(s)
    \/ \E s \in Slots : Embed(s)
    \/ AddSeq
    \/ AddPar

SpecImplications == Init /\ [][NextImplications]_vars

\* The two implications agree in (satisfied, extension).
EqualImplications(pi, pj) ==
    /\ pi.satisfied = pj.satisfied
    /\ isl_map_is_equal(pi.extension, pj.extension)

\* No two entries of the list are equal.
NoEqualEntries(implications) ==
    \A k \in 1..Len(implications), m \in 1..Len(implications) :
       k # m => ~EqualImplications(implications[k], implications[m])

\* A successful add of two scops with at least one statement each.
AddedStatements ==
    /\ IsAdd /\ last.r # NULL
    /\ Len(last.a.stmts) >= 1 /\ Len(last.b.stmts) >= 1

\* Up to equality, the implications of the result are those of the operands.
SameImplications ==
    /\ \A k \in 1..Len(last.a.implications) :
          \E m \in 1..Len(last.r.implications) :
             EqualImplications(last.a.implications[k], last.r.implications[m])
    /\ \A k \in 1..Len(last.b.implications) :
          \E m \in 1..Len(last.r.implications) :
             EqualImplications(last.b.implications[k], last.r.implications[m])
    /\ \A m \in 1..Len(last.r.implications) :
          \/ \E k \in 1..Len(last.a.implications) :
                EqualImplications(last.a.implications[k],
                                  last.r.implications[m])
          \/ \E k \in 1..Len(last.b.implications) :
                EqualImplications(last.b.implications[k],
                                  last.r.implications[m])

C19_Duplicate ==
    /\ AddedStatements
    /\ ~NoEqualEntries(last.a.implications)
    /\ ~NoEqualEntries(last.r.implications)

(***************************************************************************)
(* Properties of gist.                                                     *)
(***************************************************************************)
\* Scops of statements with arrays, in loops and restricted, simplified.
NextGist ==
    \/ \E s \in Slots : FromStmt(s)
    \/ \E s \in Slots : AddArray(s)
    \/ \E s \in Slots : AddBooleanArray(s)
    \/ \E s \in Slots : Restrict(s)
    \/ \E s \in Slots : Embed(s)
    \/ \E s \in Slots : Gist(s)

SpecGist == Init /\ [][NextGist]_vars

Simplified == last.op = "gist" /\ last.r # NULL

\* The points of the set at the parameter values of the context.
InContext(set, context) == {pt \in set.pts : pt.p \in PVof(context)}

\* What gist leaves alone: the context, the schedules, the implications, the
\* skips and the numbers of statements and arrays.
GistKeeps ==
    /\ last.r.context = last.a.context
    /\ last.r.implications = last.a.implications
    /\ last.r.skip = last.a.skip
    /\ Len(last.r.stmts) = Len(last.a.stmts)
    /\ Len(last.r.arrays) = Len(last.a.arrays)
    /\ \A k \in 1..Len(last.a.stmts) :
          last.r.stmts[k].schedule = last.a.stmts[k].schedule

C20_WitnessInside ==
    /\ Simplified
    /\ last.in.mode = "drop"
    /\ \E k \in 1..Len(last.a.stmts) :
          InContext(last.a.stmts[k].domain, last.a.context)
              # InContext(isl_set_universe(last.a.stmts[k].domain),
                          last.a.context)

(***************************************************************************)
(* Properties of the alignment of parameters.                              *)
(***************************************************************************)
\* Finished scops of statements with filters, arrays and implications, in
\* loops, with their parameters aligned.
NextAlign ==
    \/ \E s \in Slots : FromStmt(s)
    \/ \E s \in Slots : AddArray(s)
    \/ \E s \in Slots : AddBooleanArray(s)
    \/ \E s \in Slots : AddImplication(s)
    \/ \E s \in Slots : Filter(s)
    \/ \E s \in Slots : Embed(s)
    \/ \E s \in Slots : AlignParams(s)

SpecAlign == Init /\ [][NextAlign]_vars

Aligned == last.op = "align_params" /\ last.r # NULL

\* The parameter lists of the access relations of an expression.
RECURSIVE ExprParamLists(_)
ExprParamLists(expr) ==
    (IF expr.type = "access" THEN {expr.acc.params} ELSE {})
    \cup UNION {ExprParamLists(expr.args[k]) : k \in 1..Len(expr.args)}

\* The parameter lists of the sets and relations that the alignment visits:
\* the context, those of the arrays and those of the statements.
VisitedParamLists(scop) ==
    {scop.context.params}
    \cup UNION {{scop.arrays[k].context.params, scop.arrays[k].extent.params}
                \cup (IF scop.arrays[k].value_bounds = NULL THEN {}
                      ELSE {scop.arrays[k].value_bounds.params}) :
                   k \in 1..Len(scop.arrays)}
    \cup UNION {{scop.stmts[k].domain.params, scop.stmts[k].schedule.params}
                \cup ExprParamLists(scop.stmts[k].body)
                \cup UNION {ExprParamLists(scop.stmts[k].args[m]) :
                               m \in 1..Len(scop.stmts[k].args)} :
                   k \in 1..Len(scop.stmts)}

\* The parameter lists of all the sets and relations of a scop.
AllParamLists(scop) ==
    VisitedParamLists(scop)
    \cup {scop.context_value.params}
    \cup {scop.implications[k].extension.params :
             k \in 1..Len(scop.implications)}

\* C21: after pet_scop_align_params every set and relation of the scop
\* (context, context_value, those of the arrays, of the statements and of
\* the implications) has the same list of parameters, in the same order,
\* and that list has every parameter that one of them had before.
C21_AlignParams ==
    Aligned
    => /\ \A l \in AllParamLists(last.r) : l = last.r.context.params
       /\ \A l \in AllParamLists(last.a) :
             Range(l) \subseteq Range(last.r.context.params)

\* The same for the sets and relations that the alignment visits: not for
\* context_value and not for the extensions of the implications.
C21_AsImplemented ==
    Aligned
    => /\ \A l \in VisitedParamLists(last.r) : l = last.r.context.params
       /\ \A l \in VisitedParamLists(last.a) :
             Range(l) \subseteq Range(last.r.context.params)
       /\ last.r.context_value = last.a.context_value
       /\ last.r.implications = last.a.implications

\* The statements had their parameters in another order than the scop, and
\* context_value is left without the parameters of the context.
C21_Divergence ==
    /\ Aligned
    /\ Len(last.r.context.params) = 2
    /\ \E k \in 1..Len(last.a.stmts) :
          /\ Len(last.a.stmts[k].body.args[1].acc.params) = 2
          /\ last.a.stmts[k].body.args[1].acc.params # last.r.context.params
    /\ last.r.context_value.params = <<>>

(***************************************************************************)
(* Context extraction for the conditional operator.                        *)
(***************************************************************************)
NextContext ==
    \/ \E s \in Slots : FromStmt(s)
    \/ ExtractContext

SpecContext == Init /\ [][NextContext]_vars

Extracted == last.op = "extract_context"

\* The parameter values for which an access is defined.
ValidFor(expr) == {pt.p : pt \in expr.acc.pts}

\* The parameter values for which an affine condition is zero.
ZeroRegion(expr) == {pt.p : pt \in {q \in expr.acc.pts : q.x[1] = 0}}

\* The context that reaches the conditional: the universe restricted by the
\* left-hand side, and then by the condition.
ContextK == ValidFor(last.in.lhs)
ContextK0 == ContextK \cap ValidFor(last.in.cond.args[1])

\* C22: the context extracted for c ? t : e from K is, with K0 = K
\* restricted by c, (K0 restricted by t) union (K0 restricted by e) when c
\* is not affine, and ((K0 restricted by t) minus Z) union ((K0 restricted
\* by e) intersect Z) when c is affine with zero region Z.
C22_CondContext ==
    Extracted =>
        LET c == last.in.cond.args[1]
            t == last.in.cond.args[2]
            e == last.in.cond.args[3]
            K1 == ContextK0 \cap ValidFor(t)
            K2 == ContextK0 \cap ValidFor(e)
        IN  {pt.p : pt \in last.r.pts} =
                IF pet_expr_is_affine(c)
                THEN (K1 \ ZeroRegion(c)) \cup (K2 \cap ZeroRegion(c))
                ELSE K1 \cup K2

\* An affine condition for which the zero region matters: the result is
\* smaller than the union of the two restricted contexts.
C22_Witness ==
    /\ Extracted
    /\ pet_expr_is_affine(last.in.cond.args[1])
    /\ ZeroRegion(last.in.cond.args[1]) # {}
    /\ {pt.p : pt \in last.r.pts} #
           (ContextK0 \cap ValidFor(last.in.cond.args[2])) \cup
           (ContextK0 \cap ValidFor(last.in.cond.args[3]))
    /\ last.r.pts # {}

\* A condition that is not affine, with branches that are valid for different
\* parameter values.
C22_WitnessNonAffine ==
    /\ Extracted
    /\ ~pet_expr_is_affine(last.in.cond.args[1])
    /\ ContextK0 # ContextK
    /\ ValidFor(last.in.cond.args[2]) \cap ContextK0 #
           ValidFor(last.in.cond.args[3]) \cap ContextK0

(***************************************************************************)
(* Printing of the original code.                                          *)
(***************************************************************************)
NextPrint ==
    \/ \E s \in Slots : FromStmt(s)
    \/ \E s \in Slots : Empty(s)
    \/ \E s \in Slots : UpdateStartEnd(s)
    \/ \E s \in Slots : SetInputFile(s)
    \/ \E s \in Slots : PrintOriginal(s)
    \/ AddSeq

SpecPrint == Init /\ [][NextPrint]_vars

Printed == last.op = "print_original"

\* The bytes of a file at the offsets first .. last - 1.
ByteRange(file, first, end) ==
    [k \in 1..(IF end > first THEN end - first ELSE 0) |-> file.bytes[first + k]]

\* C23: without a recorded input file pet_scop_print_original returns null,
\* releases the printer and copies nothing; with a recorded input file it
\* appends the bytes [start, end) of the location of the scop to the output
\* file of the printer (a printer that prints to a file), which it returns.
C23_PrintOriginal ==
    Printed =>
        /\ last.a.input = NULL =>
              /\ last.r.r = NULL
              /\ last.r.released
              /\ last.r.copied = <<>>
        /\ (last.a.input # NULL /\ last.in.p.file # NULL) =>
              /\ last.r.r # NULL
              /\ ~last.r.released
              /\ last.r.r.file.bytes =
                     last.in.p.file.bytes \o
                     ByteRange(InputFile, last.a.loc.start, last.a.loc.end)
              /\ last.r.copied =
                     ByteRange(InputFile, last.a.loc.start, last.a.loc.end)

\* A range that starts after the beginning of the file and ends before its
\* end is copied behind what the output file holds already.
C23_Witness ==
    /\ Printed
    /\ last.a.input # NULL
    /\ last.in.p.file = [bytes |-> <<"x">>]
    /\ last.a.loc.start > 0
    /\ last.a.loc.end < Len(InputFile.bytes)
    /\ last.r.r # NULL
    /\ Len(last.r.copied) = 3

\* A scop without a recorded input file, the sum of two scops, is printed to
\* a file.
C23_WitnessNoInput ==
    /\ Printed
    /\ last.a.input = NULL
    /\ Len(last.a.stmts) = 2
    /\ last.in.p.file # NULL
    /\ last.r.r = NULL

\* A printer that prints to a string has no file to copy to: it is released.
C23_StringPrinter ==
    (Printed /\ last.in.p.file = NULL) => (last.r.r = NULL /\ last.r.released)

(***************************************************************************)
(* The arguments of a filtered statement.                                  *)
(***************************************************************************)
NextArgs ==
    \/ \E s \in Slots : FromStmt(s)
    \/ \E s \in Slots : AddImplication(s)
    \/ \E s \in Slots : Embed(s)
    \/ \E s \in Slots : Filter(s)
    \/ \E s \in Slots : FilterSecond(s)

SpecArgs == Init /\ [][NextArgs]_vars

\* Statement k of the scop got a filter in the last step.
FilterAdded(k) ==
    /\ Filtered /\ last.in.fail = "" /\ last.r # NULL
    /\ k \in 1..Len(last.a.stmts)
    /\ ~filter_implied(last.a, last.a.stmts[k], last.in.test,
                       last.in.satisfied)

\* C24: when pet_scop_filter adds a filter to a statement, the statement has
\* one more argument, the new argument 0 is a read of the test (the first
\* element of the sequence), the previous arguments follow in their order,
\* and the values of the arguments in the wrapped domain are those of
\* before, one position further, behind the value "satisfied" at position 0.
C24_FilterArguments ==
    \A k \in 1..2 :
        FilterAdded(k) =>
            LET old == last.a.stmts[k]
                new == last.r.stmts[k]
            IN  /\ Len(new.args) = Len(old.args) + 1
                /\ new.args[1].type = "access"
                /\ new.args[1].read /\ ~new.args[1].write
                /\ pet_expr_access_get_id(new.args[1]) = last.in.test.id
                /\ \A j \in 1..Len(old.args) : new.args[j + 1] = old.args[j]
                /\ \A pt \in new.domain.pts : pt.a[1] = last.in.satisfied
                /\ {[p |-> pt.p, it |-> pt.it, a |-> Tail(pt.a)] :
                       pt \in new.domain.pts} = old.domain.pts
                /\ Cardinality(new.domain.pts) = Cardinality(old.domain.pts)

\* A statement that was filtered on one test with one value is filtered on
\* the other test with the other value.
C24_Witness ==
    \E k \in 1..2 :
        /\ FilterAdded(k)
        /\ Len(last.a.stmts[k].args) = 1
        /\ pet_expr_access_get_id(last.a.stmts[k].args[1]) # last.in.test.id
        /\ last.r.stmts[k].domain.pts # {}
        /\ \A pt \in last.r.stmts[k].domain.pts : pt.a[1] # pt.a[2]

(***************************************************************************)
(* The result of a restriction.                                            *)
(***************************************************************************)
\* The scop restricted to the condition: its context, statement domains and
\* affine skips are those the restriction is to produce.
RestrictedTo(old, new, cond) ==
    LET C == PVof(cond)
    IN  /\ PVof(new.context) = (PVof(old.context) \cap C) \cup (PV \ C)
        /\ PV \ C \subseteq PVof(new.context)
        /\ Len(new.stmts) = Len(old.stmts)
        /\ \A k \in 1..Len(old.stmts) :
              new.stmts[k].domain.pts =
                  {pt \in old.stmts[k].domain.pts : pt.p \in C}
        /\ \A type \in SkipTypes :
              IF old.skip[type] = NULL THEN new.skip[type] = NULL
              ELSE /\ new.skip[type] # NULL
                   /\ multi_pw_aff_is_affine(new.skip[type])
                   /\ new.skip[type].nz = old.skip[type].nz \cap C

\* C25: pet_scop_restrict(S, cond) sets the context to (old context
\* intersect cond) union (complement of cond), which holds every parameter
\* value outside cond, intersects every statement domain with cond on the
\* parameters and makes each affine skip hold exactly where it held before
\* and cond is true: for the restriction that took place and for every
\* other condition on the parameters.
C25_RestrictResult ==
    (last.op = "restrict" /\ AffineSkipsOnly(last.a))
    => /\ (last.in.fail = ""
             => /\ last.r # NULL
                /\ RestrictedTo(last.a, last.r, last.in.cond))
       /\ \A c \in AllConds :
             /\ RestrictOnce(last.a, c) # NULL
             /\ RestrictedTo(last.a, RestrictOnce(last.a, c), c)

\* A scop with a context that is not universal and with an affine skip that
\* holds inside and outside the condition has been restricted.
C25_Witness ==
    /\ last.op = "restrict" /\ last.r # NULL
    /\ PVof(last.a.context) # PV
    /\ PV \ PVof(last.in.cond) # {}
    /\ ~(PV \ PVof(last.in.cond) \subseteq PVof(last.a.context))
    /\ \E type \in SkipTypes :
          /\ last.a.skip[type] # NULL
          /\ multi_pw_aff_is_affine(last.a.skip[type])
          /\ last.a.skip[type].nz \cap PVof(last.in.cond) # {}
          /\ last.a.skip[type].nz \ PVof(last.in.cond) # {}
    /\ \E k \in 1..Len(last.a.stmts) :
          last.r.stmts[k].domain.pts # last.a.stmts[k].domain.pts

(***************************************************************************)
(* The collected accesses.                                                 *)
(***************************************************************************)
NextAccesses ==
    \/ \E s \in Slots : FromStmt(s)
    \/ \E s \in Slots : FromAccessStmt(s)
    \/ \E s \in Slots : AddArray(s)
    \/ \E s \in Slots : AddSmallArray(s)
    \/ \E s \in Slots : Restrict(s)
    \/ \E s \in Slots : Filter(s)
    \/ \E s \in Slots : CollectAccesses(s)
    \/ AddSeq

SpecAccesses == Init /\ [][NextAccesses]_vars

Collected == last.op = "collect_accesses"

\* The element is in the extent of an array of the scop.
InExtent(scop, a) ==
    \E k \in 1..Len(scop.arrays) :
        /\ scop.arrays[k].extent.id = a.id
        /\ \E pt \in scop.arrays[k].extent.pts : pt.it = a.x

\* The write accesses of an expression that have arguments.
RECURSIVE WritesWithArgs(_)
WritesWithArgs(expr) ==
    (IF expr.type = "access" /\ expr.write /\ Len(expr.args) > 0
     THEN {expr} ELSE {}) \cup
    UNION {WritesWithArgs(expr.args[k]) : k \in 1..Len(expr.args)}

\* The write accesses of an expression that have no arguments.
RECURSIVE PlainWrites(_)
PlainWrites(expr) ==
    (IF expr.type = "access" /\ expr.write /\ Len(expr.args) = 0
     THEN {expr} ELSE {}) \cup
    UNION {PlainWrites(expr.args[k]) : k \in 1..Len(expr.args)}

\* The elements that the statement contributes to a collection.
From(stmt, accesses) == {a \in accesses : a.stmt = stmt.domain.id}

\* C26: the must-writes are among the may-writes; a statement with
\* arguments contributes nothing to the must-writes and (a kill) nothing to
\* the must-kills, an access with arguments contributes nothing to the
\* must-writes, and both contribute to the may-writes what lies in the
\* domain and in the extents; the may-writes and the must-writes hold
\* elements of the extents of the arrays of the scop only.
C26_MustWithinMay ==
    Collected =>
        /\ last.r.must_writes \subseteq last.r.may_writes
        /\ \A a \in last.r.may_writes \cup last.r.must_writes :
              InExtent(last.a, a)
        /\ \A k \in 1..Len(last.a.stmts) :
              LET stmt == last.a.stmts[k]
              IN  /\ Len(stmt.args) > 0
                     => /\ From(stmt, last.r.must_writes) = {}
                        /\ From(stmt, last.r.must_kills) = {}
                  /\ (~pet_stmt_is_kill(stmt) /\ PlainWrites(stmt.body) = {})
                     => From(stmt, last.r.must_writes) = {}
                  /\ (/\ ~pet_stmt_is_kill(stmt)
                      /\ stmt.domain.pts # {}
                      /\ \E e \in WritesWithArgs(stmt.body) \cup
                                   (IF Len(stmt.args) > 0
                                    THEN PlainWrites(stmt.body) ELSE {}) :
                            \E pt \in stmt.domain.pts :
                               \E q \in pet_expr_access_get_may_access(e).pts :
                                  /\ q.p = pt.p /\ q.it = pt.it
                                  /\ InExtent(last.a,
                                        [id |-> e.acc.id, x |-> q.x]))
                     => From(stmt, last.r.may_writes) # {}

\* A filtered statement writes the declared array: it is in the may-writes
\* and not in the must-writes.
C26_Witness ==
    /\ Collected
    /\ \E k \in 1..Len(last.a.stmts) :
          /\ Len(last.a.stmts[k].args) > 0
          /\ From(last.a.stmts[k], last.r.may_writes) # {}
          /\ From(last.a.stmts[k], last.r.must_writes) = {}

\* An access with arguments is in the may-writes only, next to a statement
\* that is in the must-writes.
C26_WitnessAccess ==
    /\ Collected
    /\ last.r.must_writes # {}
    /\ \E k \in 1..Len(last.a.stmts) :
          /\ Len(last.a.stmts[k].args) = 0
          /\ WritesWithArgs(last.a.stmts[k].body) # {}
          /\ From(last.a.stmts[k], last.r.may_writes) # {}
          /\ From(last.a.stmts[k], last.r.must_writes) = {}

\* A write outside the extents is left out; a kill is collected.
C26_WitnessExtent ==
    /\ Collected
    /\ last.r.must_kills # {}
    /\ \E k \in 1..Len(last.a.stmts) :
          /\ PlainWrites(last.a.stmts[k].body) # {}
          /\ Len(last.a.stmts[k].args) = 0
          /\ last.a.stmts[k].domain.pts # {}
          /\ Len(last.a.arrays) > 0
          /\ Cardinality(From(last.a.stmts[k], last.r.must_writes)) <
                Cardinality(last.a.stmts[k].domain.pts)

(***************************************************************************)
(* Skips of both operands of an addition.                                  *)
(***************************************************************************)
\* Both operands carry a skip of the type, and one of the two is not affine.
OneNonAffine(type) ==
    /\ last.a.skip[type] # NULL /\ last.b.skip[type] # NULL
    /\ \/ ~multi_pw_aff_is_affine(last.a.skip[type])
       \/ ~multi_pw_aff_is_affine(last.b.skip[type])

\* C27: when pet_scop_add finds a skip of some type on both operands of
\* which at least one is not affine, it returns null; otherwise, unless an
\* allocation fails, it succeeds, and a skip that only one operand has is
\* the skip of the result, affine or not.
C27_MixedSkipsFail ==
    PlainAdd =>
        /\ (\E type \in SkipTypes : OneNonAffine(type)) => last.r = NULL
        /\ (last.in.fail = "" /\ \A type \in SkipTypes : ~OneNonAffine(type))
           => last.r # NULL
        /\ last.r # NULL
           => \A type \in SkipTypes :
                 /\ (last.a.skip[type] # NULL /\ last.b.skip[type] = NULL)
                    => /\ last.r.skip[type] = last.a.skip[type]
                       /\ multi_pw_aff_is_affine(last.r.skip[type]) =
                             multi_pw_aff_is_affine(last.a.skip[type])
                 /\ (last.a.skip[type] = NULL /\ last.b.skip[type] # NULL)
                    => /\ last.r.skip[type] = last.b.skip[type]
                       /\ multi_pw_aff_is_affine(last.r.skip[type]) =
                             multi_pw_aff_is_affine(last.b.skip[type])

\* An affine skip meets a skip that is not affine: the addition fails.
C27_Witness ==
    /\ PlainAdd /\ last.in.fail = ""
    /\ \E type \in SkipTypes :
          /\ last.a.skip[type] # NULL /\ last.b.skip[type] # NULL
          /\ multi_pw_aff_is_affine(last.a.skip[type]) #
                multi_pw_aff_is_affine(last.b.skip[type])
    /\ Len(last.a.stmts) >= 1 /\ Len(last.b.stmts) >= 1
    /\ last.r = NULL

\* A skip that is not affine, on one operand only, is carried over.
C27_WitnessCarried ==
    /\ PlainAdd /\ last.r # NULL
    /\ Len(last.a.stmts) >= 1 /\ Len(last.b.stmts) >= 1
    /\ \E type \in SkipTypes :
          /\ last.a.skip[type] = NULL /\ last.b.skip[type] # NULL
          /\ ~multi_pw_aff_is_affine(last.r.skip[type])

(***************************************************************************)
(* Sequence of a scop with skip[now] and a scop with skips.                *)
(***************************************************************************)
\* add_seq of a first operand with skip[now] and a second operand with a
\* skip.
SeqOfSkips ==
    /\ last.op = "add_seq"
    /\ pet_scop_has_skip(last.a, "now")
    /\ \E type \in SkipTypes : pet_scop_has_skip(last.b, type)

\* The second operand has a skip that is not affine.
SecondNonAffine ==
    \E type \in SkipTypes :
        /\ last.b.skip[type] # NULL
        /\ ~multi_pw_aff_is_affine(last.b.skip[type])

\* C28: pet_scop_add_seq(A, B) with a skip[now] on A and a skip on B
\* succeeds only if the skip[now] of A and every skip of B are affine;
\* otherwise it returns null and A and B are released.
C28_SeqOfSkips ==
    SeqOfSkips =>
        /\ last.r # NULL
           => /\ multi_pw_aff_is_affine(last.a.skip["now"])
              /\ ~SecondNonAffine
        /\ (~multi_pw_aff_is_affine(last.a.skip["now"]) \/ SecondNonAffine)
           => /\ last.r = NULL
              /\ pool[1] = NULL /\ pool[2] = NULL
              /\ AllReleasedOnce

\* The skip[now] of the first operand is not affine and the second operand
\* has an affine skip: the sequence fails.
C28_Witness ==
    /\ SeqOfSkips /\ last.in.fail = ""
    /\ ~multi_pw_aff_is_affine(last.a.skip["now"])
    /\ ~SecondNonAffine
    /\ Len(last.a.stmts) >= 1 /\ Len(last.b.stmts) >= 1
    /\ last.r = NULL

\* The skip[now] of the first operand is affine and the second operand has
\* a skip that is not affine: the sequence fails.
C28_WitnessSecond ==
    /\ SeqOfSkips /\ last.in.fail = ""
    /\ multi_pw_aff_is_affine(last.a.skip["now"])
    /\ SecondNonAffine
    /\ last.r = NULL

\* All skips are affine: the sequence succeeds.
C28_WitnessAffine ==
    /\ SeqOfSkips
    /\ last.r # NULL
    /\ Len(last.r.stmts) = 2

(***************************************************************************)
(* A skip that is not affine.                                              *)
(***************************************************************************)
NextSkips ==
    \/ \E s \in Slots : FromStmt(s)
    \/ \E s \in Slots : SetSkip(s)
    \/ \E s \in Slots : ReplaceSkip(s)
    \/ \E s \in Slots : ResetSkip(s)
    \/ \E s \in Slots : Restrict(s)
    \/ \E s \in Slots : Filter(s)
    \/ \E s \in Slots : Embed(s)

SpecSkips == Init /\ [][NextSkips]_vars

NonAffineSkip(scop) ==
    /\ scop # NULL
    /\ \E type \in SkipTypes :
          /\ scop.skip[type] # NULL
          /\ ~multi_pw_aff_is_affine(scop.skip[type])

\* Every filter and every restriction of the scop fails.
NoFilterNoRestrict(scop) ==
    /\ \A test \in TestInputs \cup {SecondTest}, satisfied \in Bool01 :
          pet_scop_filter(scop, test, satisfied,
                          [now |-> NthFree(1), later |-> NthFree(2)], "").r
              = NULL
    /\ \A c \in AllConds : RestrictOnce(scop, c) = NULL

\* C29: while a scop has a skip that is not affine, every pet_scop_filter
\* (for both values of satisfied) and every pet_scop_restrict of it returns
\* null; a filter with satisfied = 1 on a universal skip makes the skip the
\* test, which is not affine; pet_scop_reset_skip and pet_scop_embed drop the
\* skip and pet_scop_set_skip replaces it, after which a scop without a
\* skip that is not affine can be restricted again.
C29_NonAffineSkipBlocks ==
    /\ \A s \in Slots : NonAffineSkip(pool[s]) => NoFilterNoRestrict(pool[s])
    /\ (last.op \in {"filter", "restrict"} /\ NonAffineSkip(last.a))
       => last.r = NULL
    /\ (Filtered /\ last.r # NULL)
       => \A type \in SkipTypes :
             pet_scop_has_universal_skip(last.a, type)
             => /\ last.in.satisfied = 1
                /\ last.r.skip[type].id = last.in.test.id
                /\ NonAffineSkip(last.r)
    /\ (last.op = "reset_skip" /\ last.r # NULL)
       => last.r.skip[last.in.type] = NULL
    /\ (last.op = "embed" /\ last.r # NULL)
       => last.r.skip = [now |-> NULL, later |-> NULL]
    /\ (last.op = "set_skip" /\ last.r # NULL)
       => /\ last.r.skip[last.in.type].id = last.in.skip.id
          /\ last.r.skip[last.in.type].nz = last.in.skip.nz
    /\ (last.op \in {"reset_skip", "embed", "set_skip"} /\ last.r # NULL
          /\ ~NonAffineSkip(last.r))
       => \A c \in AllConds : RestrictOnce(last.r, c) # NULL

\* A filter has turned a universal skip into the test.
C29_Witness ==
    /\ Filtered /\ last.r # NULL
    /\ pet_scop_has_universal_skip(last.a, "now")
    /\ NonAffineSkip(last.r)
    /\ Len(last.r.stmts) >= 1

\* The skip that is not affine has been dropped or replaced.
C29_WitnessDropped ==
    /\ last.op \in {"reset_skip", "set_skip"} /\ last.r # NULL
    /\ NonAffineSkip(last.a) /\ ~NonAffineSkip(last.r)

\* A filter or a restriction has failed on a skip that is not affine.
C29_WitnessFails ==
    /\ last.op \in {"filter", "restrict"} /\ last.in.fail = ""
    /\ NonAffineSkip(last.a)
    /\ last.r = NULL

(***************************************************************************)
(* Types and context_value in an addition.                                 *)
(***************************************************************************)
NextTypes ==
    \/ \E s \in Slots : FromStmt(s)
    \/ \E s \in Slots : Empty(s)
    \/ \E s \in Slots : AddArray(s)
    \/ \E s \in Slots : AddImplication(s)
    \/ \E s \in Slots : RecordTypes(s)
    \/ AddSeq
    \/ AddPar

SpecTypes == Init /\ [][NextTypes]_vars

\* C30: the sum of two scops with statements has no types and a universal
\* context_value, whatever the operands held; when exactly one operand has
\* no statement, the result has the types, the context_value, the arrays,
\* the implications and the context of the other one and nothing of the
\* empty one.
C30_AddDropsTypes ==
    (IsAdd /\ last.r # NULL)
    => /\ (Len(last.a.stmts) >= 1 /\ Len(last.b.stmts) >= 1)
          => /\ Len(last.r.types) = 0
             /\ PlainUniverse(last.r.context_value)
       /\ ((Len(last.a.stmts) = 0) # (Len(last.b.stmts) = 0))
          => LET other == IF Len(last.a.stmts) = 0 THEN last.b ELSE last.a
             IN  /\ last.r.types = other.types
                 /\ last.r.context_value = other.context_value
                 /\ last.r.arrays = other.arrays
                 /\ last.r.implications = other.implications
                 /\ last.r.context = other.context

\* Both operands have statements, types and a context_value that is not
\* universal.
C30_Witness ==
    /\ IsAdd /\ last.r # NULL
    /\ Len(last.a.stmts) >= 1 /\ Len(last.b.stmts) >= 1
    /\ Len(last.a.types) = 1 /\ Len(last.b.types) = 1
    /\ ~PlainUniverse(last.a.context_value)
    /\ ~PlainUniverse(last.b.context_value)
    /\ Len(last.r.types) = 0

\* The empty operand has a type, an array and a context_value that the
\* other operand has not.
C30_WitnessEmpty ==
    /\ IsAdd /\ last.r # NULL
    /\ Len(last.a.stmts) = 0 /\ Len(last.b.stmts) >= 1
    /\ Len(last.a.types) = 1 /\ Len(last.a.arrays) = 1
    /\ ~PlainUniverse(last.a.context_value)
    /\ Len(last.r.types) = 0 /\ Len(last.r.arrays) = 0
    /\ PlainUniverse(last.r.context_value)

\* The operand with statements has a type that the result keeps.
C30_WitnessKept ==
    /\ IsAdd /\ last.r # NULL
    /\ Len(last.a.stmts) >= 1 /\ Len(last.b.stmts) = 0
    /\ Len(last.r.types) = 1 /\ Len(last.b.types) = 1
    /\ ~PlainUniverse(last.r.context_value)

====
